---- MODULE Spec2Model ----
(***************************************************************************)
(* A model of the structural extractors of DjangoProjectAnalyzer           *)
(* (django-structure-explorer): extractModels and its model cache,         *)
(* extractUrls, extractSettings and extractAdminClasses, and of the        *)
(* project search of DjangoStructureProvider.                              *)
(* A source line is a record of what the extractor's regular               *)
(* expressions can see of it: its syntactic kind, its indentation, the     *)
(* identifiers the capture groups take, and its parenthesis counts.        *)
(***************************************************************************)
EXTENDS Integers, Sequences, FiniteSets, TLC

VARIABLES
    lines,      \* extractModels: content.split('\n') of the file being scanned
    variant,    \* "twoPass" (closure loop) or "singlePass" (older analyzer)
    pc,         \* position of the extractModels call
    i,          \* 0-based index of the next line of the field scan
    sc,         \* the scanner's local variables, the output list included
    passes,     \* iterations of the closure loop made so far
    routeFiles, \* extractUrls: application name -> lines of <app>/urls.py
    callStack,  \* the extractUrls calls in progress, innermost last
    urlsResult, \* what the outermost extractUrls call returned
    urlsPc,     \* "run" while the outermost call is in progress, then "done"
    disk,       \* model cache: path -> lines of the file at that path
    now,        \* Date.now()
    modelCache, \* this.modelCache: path -> the array stored for it
    cacheExpiry,\* this.cacheExpiry: path -> the time its array was stored
    heap,       \* the arrays extractModels has created, by identity
    calls,      \* the extractModels calls of the analyzer's callers
    settingsLines, \* extractSettings: lines, each the sequence of its characters
    settingsI,     \* its loop index i
    settings,      \* its settings array
    settingsPc,    \* "loop" while it runs, then "done"
    adminContent,  \* extractAdminClasses: the lines of content
    adminClasses,  \* its adminClasses array
    adminPc,       \* the loop it is at: "class", "register", "decorator"; "done"
    workspace,     \* provider: the workspace folder's tree and configuration
    projectRoot,   \* this.projectRoot
    gitignorePatterns,         \* this.gitignorePatterns
    compiledGitignorePatterns, \* the keys of this.compiledGitignorePatterns
    entered,       \* the directories the last search looked into
    skipped,       \* the directories the last search passed over
    searches,      \* the searches made so far
    providerPc,    \* "new" before the constructor has run, then "ready"
    configCache,        \* this.configCache: the keys it holds
    fileExistsCache,    \* this.fileExistsCache: path -> value, when computed
    directoryListCache, \* this.directoryListCache: path -> value, when computed
    lastCacheTime,      \* this.lastCacheTime
    clears,             \* the clearCaches calls made so far
    lastLookup,         \* what cachedFileExists or cachedReadDir returned last
    managePyExists,     \* whether the file system holds ws/manage.py
    outline             \* the provideDocumentSymbols call of the outline provider

modelVars == <<lines, variant, pc, i, sc, passes>>

urlVars == <<routeFiles, callStack, urlsResult, urlsPc>>

cacheVars == <<disk, now, modelCache, cacheExpiry, heap, calls>>

settingsVars == <<settingsLines, settingsI, settings, settingsPc>>

adminVars == <<adminContent, adminClasses, adminPc>>

lookupVars ==
    <<configCache, fileExistsCache, directoryListCache, lastCacheTime, clears,
      lastLookup, managePyExists>>

providerVars ==
    <<workspace, projectRoot, gitignorePatterns, compiledGitignorePatterns,
      entered, skipped, searches, providerPc, lookupVars, outline>>

vars == <<modelVars, urlVars, cacheVars, settingsVars, adminVars, providerVars>>

----------------------------------------------------------------------------
(* Source lines.                                                           *)

\* kind: blank | prop | class | meta | def | field | assign | text | import
\* ind: number of leading whitespace characters; name: first identifier
\* captured; typ: constructor identifier; bases: the class's base list
\* (for an import line: the one module the name is imported from);
\* opens / closes: count of '(' and ')' on the whole line; lp: a '('
\* directly follows the constructor identifier.
\* A dotted name is the sequence of its segments: models.Model is
\* <<"models", "Model">>.
Line(kind, ind, name, typ, bases, opens, closes, lp) ==
    [kind |-> kind, ind |-> ind, name |-> name, typ |-> typ, bases |-> bases,
     opens |-> opens, closes |-> closes, lp |-> lp]

ClassLine(ind, name, bases) == Line("class", ind, name, "", bases, 1, 1, FALSE)

LBlank       == Line("blank", 0, "", "", <<>>, 0, 0, FALSE)
LProp        == Line("prop", 4, "", "", <<>>, 0, 0, FALSE)
LMeta        == Line("meta", 4, "Meta", "", <<>>, 0, 0, FALSE)
LDef         == Line("def", 4, "m", "", <<>>, 1, 1, FALSE)
LTop         == Line("text", 0, "", "", <<>>, 0, 0, FALSE)
LFieldOne    == Line("field", 4, "f", "CharField", <<>>, 1, 1, TRUE)
LFieldOpen   == Line("field", 4, "g", "ForeignKey", <<>>, 1, 0, TRUE)
LFieldNested == Line("field", 4, "h", "DateField", <<>>, 2, 0, TRUE)
LFieldBare   == Line("field", 4, "k", "Manager", <<>>, 0, 0, FALSE)
LCont        == Line("text", 8, "", "", <<>>, 0, 0, FALSE)
LClose       == Line("text", 4, "", "", <<>>, 0, 1, FALSE)
LCloseTwo    == Line("text", 8, "", "", <<>>, 0, 2, FALSE)
LAssign      == Line("assign", 4, "objects", "Manager", <<>>, 1, 1, TRUE)
RootMarker   == <<"models", "Model">>
LClassA      == ClassLine(0, "A", <<RootMarker>>)
LClassB      == ClassLine(0, "B", <<RootMarker>>)
LNestedN     == ClassLine(4, "N", <<RootMarker>>)
LAliasedE    == ClassLine(0, "E", <<(<<"m", "Model">>)>>)
LSubB        == ClassLine(0, "B", <<(<<"A">>)>>)
LSubC        == ClassLine(0, "C", <<(<<"B">>)>>)
LSelfD       == ClassLine(0, "D", <<(<<"D">>)>>)
\* class A(C): with LSubB and LSubC, a cycle of base classes.
LCycleA      == ClassLine(0, "A", <<(<<"C">>)>>)
LPlainO      == ClassLine(0, "O", <<(<<"object">>)>>)
LSubP        == ClassLine(0, "P", <<(<<"Base">>)>>)
LImportBase  == Line("import", 0, "Base", "", <<(<<"core", "models">>)>>, 0, 0, FALSE)
\* '@property' at column 0.
LPropTop     == Line("prop", 0, "", "", <<>>, 0, 0, FALSE)
\* 'on_delete=models.CASCADE,' or 'total = models.Sum' at indentation 8: an
\* argument of an open call, or a statement of a method body.
LDeep        == Line("field", 8, "on_delete", "CASCADE", <<>>, 0, 0, FALSE)
\* 'from django.db import models as m': name is the alias.
LAliasImport == Line("aliasImport", 0, "m", "", <<(<<"django", "db">>)>>, 0, 0, FALSE)
\* 'from django.db.models import CharField': name is the text after import.
LDirectImport ==
    Line("directImport", 0, "CharField", "", <<(<<"django", "db", "models">>)>>, 0, 0, FALSE)
\* 'from django.db.models import (', the first line of an import list that
\* goes over several lines.
LDirectImportOpen ==
    Line("directImport", 0, "(", "", <<(<<"django", "db", "models">>)>>, 1, 0, FALSE)
\* '    t = m.TextField(blank=True)': bases holds the qualifier.
LFieldAliased ==
    Line("aliasfield", 4, "t", "TextField", <<(<<"m">>)>>, 1, 1, TRUE)
\* '    c = CharField(max_length=9)'
LFieldDirect == Line("barefield", 4, "c", "CharField", <<>>, 1, 1, TRUE)

IsPropertyDecorator(l) == l.kind = "prop"
ClassRegex(l)          == l.kind = "class" /\ l.ind = 0
TrimmedClassMatch(l)   == l.kind = "class"
MetaClassRegex(l)      == l.kind = "meta" /\ l.ind > 0
MethodMatch(l)         == l.kind = "def" /\ l.ind > 0
FieldRegex(l)          == l.kind = "field" /\ l.ind > 0
OtherFieldRegex(l)     ==
    l.kind \in {"field", "assign", "aliasfield", "barefield"} /\ l.ind > 0
IsBlank(l)             == l.kind = "blank"
IsComment(l)           == l.kind = "comment"

\* '(' minus ')' in the last capture group, which starts after the optional
\* '(' that follows the constructor.
GroupParens(l) == (l.opens - (IF l.lp THEN 1 ELSE 0)) - l.closes

\* '(' minus ')' on the whole line.
LineParens(l) == l.opens - l.closes

----------------------------------------------------------------------------
(* The record-name set.                                                    *)

ImportScanLimit == 30

modelBaseClasses ==
    {"Model", "TranslatableModel", "MPTTModel", "AbstractUser",
     "AbstractBaseUser", "TimeStampedModel", "BaseModel", "DjangoModel",
     "ChangeControlMixin", "SoftDeletableModel", "TimestampedModel",
     "UUIDModel", "TreeModel", "Page", "AbstractPage", "AbstractModel",
     "AbstractBaseModel"}

LastSegment(base) == base[Len(base)]

Min(a, b) == IF a < b THEN a ELSE b

\* "from <module> import <name>" lines among the first 30 lines: the
\* imported name mapped to its module.
ImportedBaseClasses(ls) ==
    {<<ls[k].name, ls[k].bases[1]>> :
        k \in {n \in 1..Min(ImportScanLimit, Len(ls)) :
                  \/ ls[n].kind = "import"
                  \/ ls[n].kind = "directImport" /\ ls[n].name # "("}}

\* The lines among the first 30 that aliasMatch matches.
AliasImportLines(ls) ==
    {n \in 1..Min(ImportScanLimit, Len(ls)) : ls[n].kind = "aliasImport"}

\* importAliases['models'] after the import scan: the alias of the last
\* matching line, as a sequence of one element; empty when none matched.
ImportAliases(ls) ==
    IF AliasImportLines(ls) = {} THEN <<>>
    ELSE <<ls[CHOOSE n \in AliasImportLines(ls) :
                  \A m \in AliasImportLines(ls) : m <= n].name>>

\* directImports after the import scan: what the lines among the first 30
\* that directImportMatch matches list after 'import'.
DirectImports(ls) ==
    {ls[n].name :
        n \in {k \in 1..Min(ImportScanLimit, Len(ls)) : ls[k].kind = "directImport"}}

\* new RegExp of the direct-import pattern, '(' + directImports.join('|')
\* + ')' between the fixed parts: a syntax error when a listed text is '('.
DirectPatternCompiles(directImports) == "(" \notin directImports

\* The alias pattern is in fieldRegexPatterns and matches the line.
AliasFieldRegex(l, importAliases) ==
    /\ importAliases # <<>>
    /\ l.kind = "aliasfield"
    /\ l.ind > 0
    /\ l.bases[1] = importAliases

\* The direct-import pattern is in fieldRegexPatterns and matches the line.
DirectFieldRegex(l, directImports) ==
    /\ directImports # {}
    /\ l.kind = "barefield"
    /\ l.ind > 0
    /\ l.typ \in directImports

\* module.includes('django.db.models') || ... || module.endsWith('.models')
ModuleIsModels(mod) ==
    \/ \E k \in 1..(Len(mod) - 2) :
          mod[k] = "django" /\ mod[k + 1] = "db" /\ mod[k + 2] = "models"
    \/ Len(mod) >= 2 /\ mod[Len(mod)] = "models"

IsRootMarker(base) == base = <<"models", "Model">> \/ base = <<"Model">>

isDjangoModel(base, imported) ==
    \/ IsRootMarker(base)
    \/ \E e \in imported : Len(base) = 1 /\ e[1] = base[1] /\ ModuleIsModels(e[2])

\* Mutant: only the literal root marker or an imported base counts, the
\* list of known base names is not consulted.
DirectModelExact(l, imported) ==
    /\ TrimmedClassMatch(l)
    /\ \E k \in 1..Len(l.bases) : isDjangoModel(l.bases[k], imported)

\* The first pass's test of one class header (two-pass analyzer).
DirectModel(l, imported) ==
    /\ TrimmedClassMatch(l)
    /\ \E k \in 1..Len(l.bases) :
          \/ LastSegment(l.bases[k]) \in modelBaseClasses
          \/ isDjangoModel(l.bases[k], imported)

FirstPass(ls) ==
    {ls[k].name : k \in {n \in 1..Len(ls) : DirectModel(ls[n], ImportedBaseClasses(ls))}}

InheritsKnown(l, known) ==
    \E k \in 1..Len(l.bases) : Len(l.bases[k]) = 1 /\ l.bases[k][1] \in known

\* One iteration of the closure loop's body: the lines in order, the set
\* growing while the pass runs.
RECURSIVE ClosureFrom(_, _, _)
ClosureFrom(ls, k, known) ==
    IF k > Len(ls) THEN known
    ELSE IF /\ TrimmedClassMatch(ls[k])
            /\ ls[k].name \notin known
            /\ InheritsKnown(ls[k], known)
         THEN ClosureFrom(ls, k + 1, known \cup {ls[k].name})
         ELSE ClosureFrom(ls, k + 1, known)

\* A variant of NewModelsFound without the test that the class is not yet
\* in the set.
NewModelsFoundAgain(ls, known) ==
    \E k \in 1..Len(ls) : TrimmedClassMatch(ls[k]) /\ InheritsKnown(ls[k], known)

\* newModelsFound after one iteration of the closure loop's body: a name
\* was added that the set did not hold.
NewModelsFound(ls, known) == ClosureFrom(ls, 1, known) # known

\* The first pass of the single-pass analyzer: only the root marker counts.
FirstPassSingle(ls) ==
    {ls[k].name : k \in {n \in 1..Len(ls) :
        /\ TrimmedClassMatch(ls[n])
        /\ \E b \in 1..Len(ls[n].bases) : IsRootMarker(ls[n].bases[b])}}

----------------------------------------------------------------------------
(* The field scan of extractModels.                                        *)

NoModel == <<>>

InitScanner ==
    [currentModel |-> NoModel, inModelDefinition |-> FALSE,
     inMetaClass |-> FALSE, classIndentation |-> 0,
     fieldStartIndentation |-> 0, currentFieldName |-> "",
     currentFieldType |-> "", currentFieldLine |-> 0,
     parenthesesCount |-> 0, isPropertyMethod |-> FALSE,
     models |-> <<>>, modelClasses |-> {},
     importAliases |-> <<>>, directImports |-> {}, thrown |-> FALSE]

Field(name, fieldType, lineNumber, isProperty) ==
    [name |-> name, fieldType |-> fieldType, lineNumber |-> lineNumber,
     isProperty |-> isProperty]

HasPendingField(s) == s.currentFieldName # "" /\ s.currentFieldType # ""

PendingField(s) ==
    Field(s.currentFieldName, s.currentFieldType, s.currentFieldLine, FALSE)

\* currentModel.fields.push(f)
PushField(s, f) == [s EXCEPT !.currentModel[1].fields = Append(@, f)]

\* A variant of PushCurrentModel that pushes whatever currentModel is.
PushCurrentModelAlways(s) ==
    [s EXCEPT !.models = Append(@, IF s.currentModel # NoModel
                                     THEN s.currentModel[1]
                                     ELSE [name |-> "", lineNumber |-> 0,
                                           fields |-> <<>>])]

\* models.push(currentModel), when there is one
PushCurrentModel(s) ==
    IF s.currentModel # NoModel
    THEN [s EXCEPT !.models = Append(@, s.currentModel[1])]
    ELSE s

NewModel(name, n) == <<[name |-> name, lineNumber |-> n, fields |-> <<>>]>>

\* A class header whose name is in the record-name set: the open record is
\* output and a new one is opened.
OpenRecord(s, l, n) ==
    [PushCurrentModel(s) EXCEPT
        !.currentModel = NewModel(l.name, n),
        !.inModelDefinition = TRUE,
        !.inMetaClass = FALSE,
        !.classIndentation = l.ind,
        !.isPropertyMethod = FALSE]

\* The single-pass analyzer's handling of any top-level class header.
OpenRecordSingle(s, l, n, imported) ==
    LET isModelClass ==
            \E k \in 1..Len(l.bases) :
                \/ isDjangoModel(l.bases[k], imported)
                \/ Len(l.bases[k]) = 1 /\ l.bases[k][1] \in s.modelClasses
        opened ==
            IF isModelClass
            THEN [PushCurrentModel(s) EXCEPT
                    !.modelClasses = @ \cup {l.name},
                    !.currentModel = NewModel(l.name, n),
                    !.inModelDefinition = TRUE]
            ELSE s
    IN  [opened EXCEPT
            !.inMetaClass = FALSE,
            !.classIndentation = l.ind,
            !.isPropertyMethod = FALSE]

\* A variant of ExitRecord that closes the record without output.
ExitRecordDrop(s) ==
    [s EXCEPT
        !.currentModel = NoModel,
        !.inModelDefinition = FALSE,
        !.inMetaClass = FALSE,
        !.isPropertyMethod = FALSE]

\* A non-blank line at or left of the class header's indentation.
ExitRecord(s) ==
    [PushCurrentModel(s) EXCEPT
        !.currentModel = NoModel,
        !.inModelDefinition = FALSE,
        !.inMetaClass = FALSE,
        !.isPropertyMethod = FALSE]

\* Mutant: the pending flag is not reset after the method is recorded.
PushPropertyKeepFlag(s, l, n) ==
    PushField(s, Field(l.name, "property", n, TRUE))

PushProperty(s, l, n) ==
    [PushField(s, Field(l.name, "property", n, TRUE)) EXCEPT
        !.isPropertyMethod = FALSE]

\* The field is complete when the count is zero.
CompleteIfBalanced(s) ==
    IF s.parenthesesCount = 0
    THEN [PushField(s, PendingField(s)) EXCEPT
            !.currentFieldName = "", !.currentFieldType = ""]
    ELSE s

\* A line matching one of the constructor patterns.
FieldMatch(s, l, n) ==
    LET s1 == IF HasPendingField(s) THEN PushField(s, PendingField(s)) ELSE s
        s2 == [s1 EXCEPT
                !.currentFieldName = l.name,
                !.currentFieldType = l.typ,
                !.currentFieldLine = n,
                !.fieldStartIndentation = l.ind,
                !.parenthesesCount = GroupParens(l)]
    IN  CompleteIfBalanced(s2)

\* A continuation line of an open multi-line field.
Continuation(s, l) ==
    CompleteIfBalanced([s EXCEPT !.parenthesesCount = @ + LineParens(l)])

\* A line at the last field's indentation, tried against the looser pattern.
Fallback(s, l, n) ==
    IF OtherFieldRegex(l)
    THEN LET s1 == IF HasPendingField(s) THEN PushField(s, PendingField(s)) ELSE s
             s2 == [s1 EXCEPT
                     !.currentFieldName = l.name,
                     !.currentFieldType = l.typ,
                     !.currentFieldLine = n,
                     !.parenthesesCount = GroupParens(l)]
         IN  CompleteIfBalanced(s2)
    ELSE s

\* A variant of EnterMeta that does not suspend field collection.
EnterMetaNoSuspend(s) == [s EXCEPT !.isPropertyMethod = FALSE]

\* A 'class Meta:' line in an open record.
EnterMeta(s) == [s EXCEPT !.inMetaClass = TRUE, !.isPropertyMethod = FALSE]

\* Which branch of the loop body line l takes in scanner state s.
Branch(s, l, v, imported) ==
    IF IsPropertyDecorator(l) THEN "decorator"
    ELSE IF v = "twoPass" /\ ClassRegex(l) /\ l.name \in s.modelClasses THEN "open"
    ELSE IF v = "singlePass" /\ ClassRegex(l) THEN "openSingle"
    ELSE IF s.currentModel = NoModel \/ ~s.inModelDefinition THEN "outside"
    ELSE IF IsBlank(l) THEN "blank"
    ELSE IF MetaClassRegex(l) THEN "meta"
    ELSE IF l.ind <= s.classIndentation THEN "exit"
    ELSE IF s.inMetaClass THEN "inMeta"
    ELSE IF s.isPropertyMethod /\ MethodMatch(l) THEN "property"
    ELSE IF FieldRegex(l) THEN "field"
    ELSE IF AliasFieldRegex(l, s.importAliases) THEN "field"
    ELSE IF s.directImports # {} /\ ~DirectPatternCompiles(s.directImports)
         THEN "throw"
    ELSE IF DirectFieldRegex(l, s.directImports) THEN "field"
    ELSE IF HasPendingField(s) /\ s.parenthesesCount > 0 THEN "continuation"
    ELSE IF l.ind = s.fieldStartIndentation /\ ~IsComment(l) THEN "fallback"
    ELSE "skip"

\* One iteration of the scan loop on line l, whose 0-based index is n.
ScanStep(s, l, n, v, imported) ==
    LET b == Branch(s, l, v, imported)
    IN  CASE b = "decorator"    -> [s EXCEPT !.isPropertyMethod = TRUE]
          [] b = "open"         -> OpenRecord(s, l, n)
          [] b = "openSingle"   -> OpenRecordSingle(s, l, n, imported)
          [] b = "outside"      -> [s EXCEPT !.isPropertyMethod = FALSE]
          [] b = "blank"        -> s
          [] b = "meta"         -> EnterMeta(s)
          [] b = "exit"         -> ExitRecord(s)
          [] b = "inMeta"       -> s
          [] b = "property"     -> PushProperty(s, l, n)
          [] b = "field"        -> FieldMatch(s, l, n)
          [] b = "continuation" -> Continuation(s, l)
          [] b = "fallback"     -> Fallback(s, l, n)
          [] b = "throw"        -> [s EXCEPT !.thrown = TRUE]
          [] OTHER              -> s

\* A variant of FlushScanner that forgets the pending field.
FlushScannerRecordOnly(s) == PushCurrentModel(s)

\* After the loop: the pending field, then the open record.
FlushScanner(s) ==
    PushCurrentModel(
        IF HasPendingField(s) /\ s.currentModel # NoModel
        THEN PushField(s, PendingField(s))
        ELSE s)

----------------------------------------------------------------------------
(* extractModels as a function of the file's lines.                        *)

\* The closure loop run to its end.
RECURSIVE Closure(_, _)
Closure(ls, known) ==
    LET next == ClosureFrom(ls, 1, known)
    IN  IF next = known THEN known ELSE Closure(ls, next)

StartScanner(ls, v) ==
    [InitScanner EXCEPT
        !.modelClasses =
            IF v = "twoPass" THEN Closure(ls, FirstPass(ls)) ELSE FirstPassSingle(ls),
        !.importAliases = ImportAliases(ls),
        !.directImports = DirectImports(ls)]

\* The scanner after the first n lines.
RECURSIVE ScanPrefix(_, _, _)
ScanPrefix(ls, n, v) ==
    IF n = 0 THEN StartScanner(ls, v)
    ELSE LET s == ScanPrefix(ls, n - 1, v)
         IN  IF s.thrown THEN s
             ELSE ScanStep(s, ls[n], n - 1, v, ImportedBaseClasses(ls))

\* The models array at the return: after the flush, or as the catch block
\* finds it when the scan has thrown.
ExtractModelsOf(ls, v) ==
    LET s == ScanPrefix(ls, Len(ls), v)
    IN  IF s.thrown THEN s.models ELSE FlushScanner(s).models

----------------------------------------------------------------------------
(* extractModels as a process: read, closure passes, scan, flush.          *)

MaxLines == 4

Files(alphabet, n) == UNION {[1..k -> alphabet] : k \in 0..n}

FieldAlphabet ==
    {LClassA, LClassB, LPlainO, LTop, LBlank, LProp, LMeta, LDef, LFieldOne,
     LFieldBare, LFieldOpen, LFieldNested, LCont, LClose, LCloseTwo, LAssign}

\* readFile resolved; the import scans and the first pass.
ReadFile ==
    /\ pc = "start"
    /\ sc' = [InitScanner EXCEPT
                !.modelClasses =
                    IF variant = "twoPass" THEN FirstPass(lines)
                    ELSE FirstPassSingle(lines),
                !.importAliases = ImportAliases(lines),
                !.directImports = DirectImports(lines)]
    /\ pc' = IF variant = "twoPass" THEN "closure" ELSE "scan"
    /\ UNCHANGED <<lines, variant, i, passes>>
    /\ UNCHANGED urlVars
    /\ UNCHANGED cacheVars
    /\ UNCHANGED <<settingsVars, adminVars, providerVars>>

\* One iteration of while (newModelsFound).
ClosurePass ==
    /\ pc = "closure"
    /\ LET known == ClosureFrom(lines, 1, sc.modelClasses)
       IN  /\ sc' = [sc EXCEPT !.modelClasses = known]
           /\ pc' = IF NewModelsFound(lines, sc.modelClasses)
                    THEN "closure" ELSE "scan"
    /\ passes' = passes + 1
    /\ UNCHANGED <<lines, variant, i>>
    /\ UNCHANGED urlVars
    /\ UNCHANGED cacheVars
    /\ UNCHANGED <<settingsVars, adminVars, providerVars>>

\* One iteration of the scan loop; an exception ends the call in the catch
\* block, which returns models as it is.
ScanLine ==
    /\ pc = "scan"
    /\ i < Len(lines)
    /\ sc' = ScanStep(sc, lines[i + 1], i, variant, ImportedBaseClasses(lines))
    /\ i' = i + 1
    /\ pc' = IF sc'.thrown THEN "done" ELSE pc
    /\ UNCHANGED <<lines, variant, passes>>
    /\ UNCHANGED urlVars
    /\ UNCHANGED cacheVars
    /\ UNCHANGED <<settingsVars, adminVars, providerVars>>

Flush ==
    /\ pc = "scan"
    /\ i = Len(lines)
    /\ sc' = FlushScanner(sc)
    /\ pc' = "done"
    /\ UNCHANGED <<lines, variant, i, passes>>
    /\ UNCHANGED urlVars
    /\ UNCHANGED cacheVars
    /\ UNCHANGED <<settingsVars, adminVars, providerVars>>

ModelsNext == ReadFile \/ ClosurePass \/ ScanLine \/ Flush

InitModels(alphabet, variants) ==
    /\ \E k \in 0..MaxLines : lines \in [1..k -> alphabet]
    /\ variant \in variants
    /\ pc = "start"
    /\ i = 0
    /\ sc = InitScanner
    /\ passes = 0

ClassAlphabet ==
    {LClassA, LNestedN, LAliasedE, LSubB, LSubC, LSelfD, LCycleA, LPlainO,
     LSubP, LImportBase, LFieldBare}

\* No extractUrls call is made.
NoUrls ==
    /\ routeFiles = <<>>
    /\ callStack = <<>>
    /\ urlsResult = <<>>
    /\ urlsPc = "idle"

\* No extractSettings and no extractAdminClasses call is made.
NoSettings ==
    /\ settingsLines = <<>>
    /\ settingsI = 0
    /\ settings = <<>>
    /\ settingsPc = "idle"

NoAdmin ==
    /\ adminContent = <<>>
    /\ adminClasses = <<>>
    /\ adminPc = "idle"

\* undefined, where a path is expected
Undefined == <<>>

\* The lookup caches of a provider, as its field initialisers leave them.
NoLookups ==
    /\ configCache = {}
    /\ fileExistsCache = <<>>
    /\ directoryListCache = <<>>
    /\ lastCacheTime = 0
    /\ clears = 0
    /\ lastLookup = <<>>
    /\ managePyExists = FALSE

\* No document is open: provideDocumentSymbols is not called.
NoOutline == outline = [pc |-> "none"]

\* No DjangoStructureProvider is constructed.
NoProvider ==
    /\ NoLookups
    /\ NoOutline
    /\ workspace = <<>>
    /\ projectRoot = Undefined
    /\ gitignorePatterns = <<>>
    /\ compiledGitignorePatterns = {}
    /\ entered = {}
    /\ skipped = {}
    /\ searches = 0
    /\ providerPc = "idle"

\* new Map()
EmptyMap == [path \in {} |-> 0]

\* private readonly cacheTtl = 30000
cacheTtl == 30000

\* The analyzer is constructed and no extractModels call goes through the
\* cache.
NoCache ==
    /\ disk = EmptyMap
    /\ now = cacheTtl
    /\ modelCache = EmptyMap
    /\ cacheExpiry = EmptyMap
    /\ heap = <<>>
    /\ calls = <<>>

Init ==
    InitModels(FieldAlphabet, {"twoPass"}) /\ NoUrls /\ NoCache /\ NoSettings /\ NoAdmin /\ NoProvider

\* Class declarations, under both analyzers.
InitClasses ==
    /\ InitModels(ClassAlphabet, {"twoPass", "singlePass"})
    /\ NoUrls /\ NoCache /\ NoSettings /\ NoAdmin /\ NoProvider

SpecClasses == InitClasses /\ [][ModelsNext]_vars

Spec == Init /\ [][ModelsNext]_vars

\* Class bodies with lines at column 0 and lines deeper than the body.
ScopeAlphabet ==
    {LClassA, LClassB, LTop, LBlank, LProp, LPropTop, LMeta, LDef, LFieldOne,
     LFieldBare, LFieldOpen, LClose, LDeep, LAssign}

InitScope ==
    InitModels(ScopeAlphabet, {"twoPass"}) /\ NoUrls /\ NoCache /\ NoSettings /\ NoAdmin /\ NoProvider

SpecScope == InitScope /\ [][ModelsNext]_vars

\* Files around the end of the import scan: blank lines, then a few lines
\* among which import lines, a record header and field lines of the three
\* forms.
MaxBodyLines == 3

ImportAlphabet ==
    {LAliasImport, LDirectImport, LDirectImportOpen, LClassA, LFieldOne,
     LFieldAliased, LFieldDirect, LDef, LTop}

BlankLines(k) == [n \in 1..k |-> LBlank]

LeadingBlankLines == {0, ImportScanLimit - 2, ImportScanLimit - 1, ImportScanLimit}

InitImports ==
    /\ \E k \in LeadingBlankLines : \E b \in Files(ImportAlphabet, MaxBodyLines) :
          lines = BlankLines(k) \o b
    /\ variant = "twoPass"
    /\ pc = "start"
    /\ i = 0
    /\ sc = InitScanner
    /\ passes = 0
    /\ NoUrls /\ NoCache /\ NoSettings /\ NoAdmin /\ NoProvider

SpecImports == InitImports /\ [][ModelsNext]_vars

----------------------------------------------------------------------------
(* extractUrls.  A string is the sequence of its pieces, so that prefix +  *)
(* pattern is concatenation and "starts with" can be told.                 *)

\* What the regular expressions of extractUrls see of a line: direct, one of
\* pathRegex / rePathRegex / urlRegex matches, with pattern and view
\* captured; include, includeRegex matches, with the module (a dotted name)
\* captured, and hasNs, its optional second string literal took part in the
\* match and captured nsPrefix.
UrlLine(direct, pattern, view, include, module, hasNs, nsPrefix) ==
    [direct |-> direct, pattern |-> pattern, view |-> view,
     include |-> include, module |-> module, hasNs |-> hasNs,
     nsPrefix |-> nsPrefix]

EmptyString == <<>>

\* path('home/', home_view),
URoute == UrlLine(TRUE, <<"home/">>, "home_view", FALSE, <<>>, FALSE, EmptyString)

\* path('news/', include('blog.urls')),
UPathInclude ==
    UrlLine(TRUE, <<"news/">>, "include", TRUE, <<"blog", "urls">>, FALSE, EmptyString)

\* include('blog.urls', 'blog/'),
UIncBlog == UrlLine(FALSE, EmptyString, "", TRUE, <<"blog", "urls">>, TRUE, <<"blog/">>)

\* include('site.urls'),
UIncSite == UrlLine(FALSE, EmptyString, "", TRUE, <<"site", "urls">>, FALSE, EmptyString)

\* include('shop.urls', 'shop/'),
UIncShop == UrlLine(FALSE, EmptyString, "", TRUE, <<"shop", "urls">>, TRUE, <<"shop/">>)

\* include('gone.urls', 'gone/'),
UIncGone == UrlLine(FALSE, EmptyString, "", TRUE, <<"gone", "urls">>, TRUE, <<"gone/">>)

\* include('blog.views', 'v/'),
UIncViews == UrlLine(FALSE, EmptyString, "", TRUE, <<"blog", "views">>, TRUE, <<"v/">>)

\* urlpatterns = [
UOther == UrlLine(FALSE, EmptyString, "", FALSE, <<>>, FALSE, EmptyString)

\* match[1] || '' of the include match: an absent group is undefined.
IncludePrefix(l) == IF l.hasNs THEN l.nsPrefix ELSE EmptyString

\* includedModule.endsWith('.urls')
EndsWithUrls(module) == Len(module) >= 2 /\ module[Len(module)] = "urls"

\* The directories under the project root, which lies two levels above
\* every route file <root>/<app>/urls.py.
AppDirs == {"site", "blog", "shop"}

\* The application directory whose urls.py the include names: the first
\* segment of the module under the project root; "" when the module does not
\* end in .urls or the directory does not exist.
IncludedFilePath(module) ==
    IF EndsWithUrls(module) /\ module[1] \in AppDirs THEN module[1] ELSE ""

\* A variant of IncludeResolves that does not look at the module's last
\* segment.
IncludeResolvesAnyModule(fs, l) ==
    /\ Len(l.module) >= 1
    /\ l.module[1] \in AppDirs
    /\ l.module[1] \in DOMAIN fs

\* includedFilePath && fs.existsSync(includedFilePath)
IncludeResolves(fs, l) ==
    /\ IncludedFilePath(l.module) # ""
    /\ IncludedFilePath(l.module) \in DOMAIN fs

\* A variant of NewPrefix that drops the prefix of the including call.
NewPrefixInnerOnly(prefix, includePrefix) ==
    IF includePrefix # EmptyString THEN includePrefix ELSE EmptyString

\* newPrefix = prefix + (includePrefix ? includePrefix : '')
NewPrefix(prefix, includePrefix) ==
    prefix \o (IF includePrefix # EmptyString THEN includePrefix ELSE EmptyString)

DjangoUrl(pattern, viewName, lineNumber) ==
    [pattern |-> pattern, viewName |-> viewName, lineNumber |-> lineNumber]

\* One extractUrls call: its arguments, the loop index and the urls array.
Frame(file, prefix) == [file |-> file, prefix |-> prefix, idx |-> 0, urls |-> <<>>]

Top == callStack[Len(callStack)]

TopLine == routeFiles[Top.file][Top.idx + 1]

InLoop == urlsPc = "run" /\ callStack # <<>> /\ Top.idx < Len(routeFiles[Top.file])

SetTop(f) == [callStack EXCEPT ![Len(callStack)] = f]

MaxUrlLines == 2

\* The model follows the recursion to this depth and no further.
MaxDepth == 4

UrlAlphabet ==
    {URoute, UPathInclude, UIncBlog, UIncSite, UIncShop, UIncGone, UIncViews, UOther}

Prefixes == {EmptyString, <<"api/">>}

\* A line a direct-route pattern matches: one entry, and the include
\* pattern is not tried.
UrlDirect ==
    /\ InLoop
    /\ TopLine.direct
    /\ callStack' = SetTop([Top EXCEPT
            !.urls = Append(@, DjangoUrl(Top.prefix \o TopLine.pattern,
                                         TopLine.view, Top.idx)),
            !.idx = @ + 1])
    /\ UNCHANGED <<routeFiles, urlsResult, urlsPc>>
    /\ UNCHANGED modelVars
    /\ UNCHANGED cacheVars
    /\ UNCHANGED <<settingsVars, adminVars, providerVars>>

\* A variant of UrlInclude that tries the include pattern on every line,
\* whether or not a direct-route pattern matched.
UrlIncludeAnyLine ==
    /\ InLoop
    /\ TopLine.include
    /\ IncludeResolves(routeFiles, TopLine)
    /\ Len(callStack) < MaxDepth
    /\ callStack' = Append(callStack,
            Frame(IncludedFilePath(TopLine.module),
                  NewPrefix(Top.prefix, IncludePrefix(TopLine))))
    /\ UNCHANGED <<routeFiles, urlsResult, urlsPc>>
    /\ UNCHANGED modelVars
    /\ UNCHANGED cacheVars
    /\ UNCHANGED <<settingsVars, adminVars, providerVars>>

\* An include line whose file exists: extractUrls is called on it.
UrlInclude ==
    /\ InLoop
    /\ ~TopLine.direct
    /\ TopLine.include
    /\ IncludeResolves(routeFiles, TopLine)
    /\ Len(callStack) < MaxDepth
    /\ callStack' = Append(callStack,
            Frame(IncludedFilePath(TopLine.module),
                  NewPrefix(Top.prefix, IncludePrefix(TopLine))))
    /\ UNCHANGED <<routeFiles, urlsResult, urlsPc>>
    /\ UNCHANGED modelVars
    /\ UNCHANGED cacheVars
    /\ UNCHANGED <<settingsVars, adminVars, providerVars>>

\* A line no pattern matches, or an include that resolves to no file.
UrlSkip ==
    /\ InLoop
    /\ ~TopLine.direct
    /\ ~TopLine.include \/ ~IncludeResolves(routeFiles, TopLine)
    /\ callStack' = SetTop([Top EXCEPT !.idx = @ + 1])
    /\ UNCHANGED <<routeFiles, urlsResult, urlsPc>>
    /\ UNCHANGED modelVars
    /\ UNCHANGED cacheVars
    /\ UNCHANGED <<settingsVars, adminVars, providerVars>>

\* A variant of PushAll that puts the included entries in front.
PushAllFront(urls, includedUrls) == includedUrls \o urls

\* urls.push(...includedUrls)
PushAll(urls, includedUrls) == urls \o includedUrls

\* The loop of the innermost call is over: it returns its urls, which the
\* caller appends to its own (urls.push(...includedUrls)) before it goes on
\* to its next line.
UrlReturn ==
    /\ urlsPc = "run"
    /\ callStack # <<>>
    /\ Top.idx = Len(routeFiles[Top.file])
    /\ IF Len(callStack) = 1
       THEN /\ urlsResult' = Top.urls
            /\ urlsPc' = "done"
            /\ callStack' = <<>>
       ELSE /\ callStack' =
                LET caller == callStack[Len(callStack) - 1]
                IN  Append(SubSeq(callStack, 1, Len(callStack) - 2),
                           [caller EXCEPT !.urls = PushAll(@, Top.urls), !.idx = @ + 1])
            /\ UNCHANGED <<urlsResult, urlsPc>>
    /\ UNCHANGED routeFiles
    /\ UNCHANGED modelVars
    /\ UNCHANGED cacheVars
    /\ UNCHANGED <<settingsVars, adminVars, providerVars>>

UrlsNext == UrlDirect \/ UrlInclude \/ UrlSkip \/ UrlReturn

\* No extractModels call is made.
NoModels ==
    /\ lines = <<>>
    /\ variant = "twoPass"
    /\ pc = "idle"
    /\ i = 0
    /\ sc = InitScanner
    /\ passes = 0

\* The route files of a project: site/urls.py and blog/urls.py with any
\* lines, shop/urls.py absent or with one route.
RouteFileSystems ==
    LET free == [{"site", "blog"} -> Files(UrlAlphabet, MaxUrlLines)]
    IN  free \cup {f @@ ("shop" :> <<URoute>>) : f \in free}

\* extractUrls('site/urls.py', prefix) has read its file.
InitUrls ==
    /\ routeFiles \in RouteFileSystems
    /\ \E prefix \in Prefixes : callStack = <<Frame("site", prefix)>>
    /\ urlsResult = <<>>
    /\ urlsPc = "run"
    /\ NoModels
    /\ NoCache
    /\ NoSettings
    /\ NoAdmin
    /\ NoProvider

SpecUrls == InitUrls /\ [][UrlsNext]_vars

----------------------------------------------------------------------------
(* The model cache of extractModels, under calls that overlap: a call      *)
(* gives up control at its await of readFile and nowhere else.             *)

Paths == {"blog/models.py", "shop/models.py"}

Contents == {<<LClassA>>, <<LTop>>}

\* What a path holds when readFile rejects: a file that is missing or may
\* not be read.
Unreadable == <<Line("unreadable", 0, "", "", <<>>, 0, 0, FALSE)>>

MaxCalls == 2

\* The calls made one after another on one file.
MaxRepeats == 3

\* The clock advances in steps of a third of cacheTtl, MaxTicks times.
MaxTicks == 3

ClockStep == cacheTtl \div 3

Callers == 1..MaxCalls

\* A caller that has not called yet.  during is the set of contents the
\* file at path has had since the call began.
IdleCall ==
    [pc |-> "idle", path |-> "", content |-> <<>>, ret |-> 0, during |-> {}]

\* A variant of CacheHit that takes an empty array for no entry.
CacheHitNonEmpty(path) ==
    /\ path \in DOMAIN cacheExpiry
    /\ cacheExpiry[path] # 0
    /\ now - cacheExpiry[path] < cacheTtl
    /\ path \in DOMAIN modelCache
    /\ heap[modelCache[path]] # <<>>

\* cachedTime && Date.now() - cachedTime < this.cacheTtl, and then cached
CacheHit(path) ==
    /\ path \in DOMAIN cacheExpiry
    /\ cacheExpiry[path] # 0
    /\ now - cacheExpiry[path] < cacheTtl
    /\ path \in DOMAIN modelCache

\* extractModels(path) is called: the cached array is returned, or the file
\* is requested.  The callers are numbered in the order of their calls.
CallExtractModels ==
    \E c \in DOMAIN calls : \E path \in DOMAIN disk :
        /\ calls[c].pc = "idle"
        /\ \A b \in 1..(c - 1) : calls[b].pc # "idle"
        /\ calls' = [calls EXCEPT ![c] =
                IF CacheHit(path)
                THEN [pc |-> "returned", path |-> path, content |-> <<>>,
                      ret |-> modelCache[path], during |-> {disk[path]}]
                ELSE [pc |-> "reading", path |-> path, content |-> <<>>,
                      ret |-> 0, during |-> {disk[path]}]]
        /\ UNCHANGED <<disk, now, modelCache, cacheExpiry, heap>>
        /\ UNCHANGED modelVars
        /\ UNCHANGED urlVars
        /\ UNCHANGED <<settingsVars, adminVars, providerVars>>

\* readFile rejects: the catch logs, and the empty models array is returned;
\* the cache writes are not reached.
ReadRejects ==
    \E c \in DOMAIN calls :
        /\ calls[c].pc = "reading"
        /\ disk[calls[c].path] = Unreadable
        /\ heap' = Append(heap, <<>>)
        /\ calls' = [calls EXCEPT ![c].pc = "returned", ![c].ret = Len(heap) + 1]
        /\ UNCHANGED <<disk, now, modelCache, cacheExpiry>>
        /\ UNCHANGED modelVars
        /\ UNCHANGED urlVars
        /\ UNCHANGED <<settingsVars, adminVars, providerVars>>

\* readFile delivers the content the file has now.
ReadResolves ==
    \E c \in DOMAIN calls :
        /\ calls[c].pc = "reading"
        /\ disk[calls[c].path] # Unreadable
        /\ calls' = [calls EXCEPT ![c].pc = "scanning",
                                  ![c].content = disk[calls[c].path]]
        /\ UNCHANGED <<disk, now, modelCache, cacheExpiry, heap>>
        /\ UNCHANGED modelVars
        /\ UNCHANGED urlVars
        /\ UNCHANGED <<settingsVars, adminVars, providerVars>>

\* The rest of the call runs without a break: the scan into a new array,
\* the two cache writes, the return.
ScanAndStore ==
    \E c \in DOMAIN calls :
        /\ calls[c].pc = "scanning"
        /\ heap' = Append(heap, ExtractModelsOf(calls[c].content, "twoPass"))
        /\ modelCache' = (calls[c].path :> Len(heap) + 1) @@ modelCache
        /\ cacheExpiry' = (calls[c].path :> now) @@ cacheExpiry
        /\ calls' = [calls EXCEPT ![c].pc = "returned", ![c].ret = Len(heap) + 1,
                                  ![c].content = <<>>]
        /\ UNCHANGED <<disk, now>>
        /\ UNCHANGED modelVars
        /\ UNCHANGED urlVars
        /\ UNCHANGED <<settingsVars, adminVars, providerVars>>

\* Someone saves another text at a path.
WriteFile ==
    \E path \in DOMAIN disk : \E content \in (Contents \cup {Unreadable}) \ {disk[path]} :
        /\ disk' = [disk EXCEPT ![path] = content]
        /\ calls' = [c \in DOMAIN calls |->
                IF calls[c].pc \in {"reading", "scanning"} /\ calls[c].path = path
                THEN [calls[c] EXCEPT !.during = @ \cup {content}]
                ELSE calls[c]]
        /\ UNCHANGED <<now, modelCache, cacheExpiry, heap>>
        /\ UNCHANGED modelVars
        /\ UNCHANGED urlVars
        /\ UNCHANGED <<settingsVars, adminVars, providerVars>>

\* Time passes.
Tick ==
    /\ now < cacheTtl + MaxTicks * ClockStep
    /\ now' = now + ClockStep
    /\ UNCHANGED <<disk, modelCache, cacheExpiry, heap, calls>>
    /\ UNCHANGED modelVars
    /\ UNCHANGED urlVars
    /\ UNCHANGED <<settingsVars, adminVars, providerVars>>

CacheNext ==
    CallExtractModels \/ ReadRejects \/ ReadResolves \/ ScanAndStore \/ WriteFile \/ Tick

InitCache ==
    /\ disk \in [Paths -> Contents \cup {Unreadable}]
    /\ now = cacheTtl
    /\ modelCache = EmptyMap
    /\ cacheExpiry = EmptyMap
    /\ heap = <<>>
    /\ calls = [c \in Callers |-> IdleCall]
    /\ NoModels
    /\ NoUrls
    /\ NoSettings
    /\ NoAdmin
    /\ NoProvider

SpecCache == InitCache /\ [][CacheNext]_vars

\* One file, called on again and again.
InitRepeat ==
    /\ disk \in [{"blog/models.py"} -> Contents \cup {Unreadable}]
    /\ now = cacheTtl
    /\ modelCache = EmptyMap
    /\ cacheExpiry = EmptyMap
    /\ heap = <<>>
    /\ calls = [c \in 1..MaxRepeats |-> IdleCall]
    /\ NoModels
    /\ NoUrls
    /\ NoSettings
    /\ NoAdmin
    /\ NoProvider

SpecRepeat == InitRepeat /\ [][CacheNext]_vars

\* One file and MaxCalls callers.
InitOneFile ==
    /\ disk \in [{"blog/models.py"} -> Contents \cup {Unreadable}]
    /\ now = cacheTtl
    /\ modelCache = EmptyMap
    /\ cacheExpiry = EmptyMap
    /\ heap = <<>>
    /\ calls = [c \in Callers |-> IdleCall]
    /\ NoModels
    /\ NoUrls
    /\ NoSettings
    /\ NoAdmin
    /\ NoProvider

SpecOneFile == InitOneFile /\ [][CacheNext]_vars

----------------------------------------------------------------------------
(* extractSettings.  A line is the sequence of its characters; an          *)
(* identifier or a run of other text stands as one character.              *)

\* String.prototype.trim, indexOf, includes, substring
RECURSIVE TrimStart(_)
TrimStart(str) == IF str # <<>> /\ str[1] = " " THEN TrimStart(Tail(str)) ELSE str

RECURSIVE TrimEnd(_)
TrimEnd(str) ==
    IF str # <<>> /\ str[Len(str)] = " "
    THEN TrimEnd(SubSeq(str, 1, Len(str) - 1))
    ELSE str

Trim(str) == TrimEnd(TrimStart(str))

IndexOf(str, ch) ==
    IF \E k \in 1..Len(str) : str[k] = ch
    THEN (CHOOSE k \in 1..Len(str) :
              str[k] = ch /\ \A m \in 1..(k - 1) : str[m] # ch) - 1
    ELSE -1

Includes(str, ch) == \E k \in 1..Len(str) : str[k] = ch

Substring(str, from, to) == SubSeq(str, from + 1, to)

\* The identifiers [A-Z_][A-Z0-9_]* of the texts.
UpperIdentifiers == {"A", "B"}

\* The first position from k on that holds no white space.
AfterSpaces(str, k) ==
    IF \E m \in k..Len(str) : str[m] # " "
    THEN CHOOSE m \in k..Len(str) : str[m] # " " /\ \A n \in k..(m - 1) : str[n] = " "
    ELSE Len(str) + 1

\* settingRegex = /^([A-Z_][A-Z0-9_]*)\s*=\s*(.+)$/ on a trimmed line
SettingRegex(line) ==
    /\ line # <<>>
    /\ line[1] \in UpperIdentifiers
    /\ AfterSpaces(line, 2) <= Len(line)
    /\ line[AfterSpaces(line, 2)] = "="
    /\ AfterSpaces(line, AfterSpaces(line, 2) + 1) <= Len(line)

\* match[1] and match[2]
MatchName(line) == line[1]

MatchValue(line) ==
    SubSeq(line, AfterSpaces(line, AfterSpaces(line, 2) + 1), Len(line))

\* A variant of StripComment that also strips from a leading '#'.
StripCommentFromStart(value) ==
    IF IndexOf(value, "#") >= 0
    THEN Trim(Substring(value, 0, IndexOf(value, "#")))
    ELSE value

\* commentIndex = value.indexOf('#'); if (commentIndex > 0) ...
StripComment(value) ==
    IF IndexOf(value, "#") > 0
    THEN Trim(Substring(value, 0, IndexOf(value, "#")))
    ELSE value

\* The value opens a brace, bracket or parenthesis and does not close it.
OpensMultiline(value) ==
    \/ Includes(value, "{") /\ ~Includes(value, "}")
    \/ Includes(value, "[") /\ ~Includes(value, "]")
    \/ Includes(value, "(") /\ ~Includes(value, ")")

\* A variant of ClosesMultiline that takes any closing character.
ClosesAnyKind(value, nextLine) ==
    \/ Includes(nextLine, "}")
    \/ Includes(nextLine, "]")
    \/ Includes(nextLine, ")")

\* nextLine holds the closing character of a kind value opens.
ClosesMultiline(value, nextLine) ==
    \/ Includes(value, "{") /\ Includes(nextLine, "}")
    \/ Includes(value, "[") /\ Includes(nextLine, "]")
    \/ Includes(value, "(") /\ Includes(nextLine, ")")

\* while (j < lines.length): the lines from j on are joined to
\* multilineValue, up to and with the first that closes.
RECURSIVE MultilineValue(_, _, _, _)
MultilineValue(ls, j, value, multilineValue) ==
    IF j >= Len(ls) THEN multilineValue
    ELSE LET nextLine == Trim(ls[j + 1])
             joined   == multilineValue \o <<" ">> \o nextLine
         IN  IF ClosesMultiline(value, nextLine) THEN joined
             ELSE MultilineValue(ls, j + 1, value, joined)

DjangoSetting(name, value, lineNumber) ==
    [name |-> name, value |-> value, lineNumber |-> lineNumber]

\* What one iteration of the for loop adds to settings.
SettingsOfLine(ls, n) ==
    LET line == Trim(ls[n + 1])
    IN  IF line = <<>> \/ line[1] = "#" THEN <<>>
        ELSE IF SettingRegex(line)
        THEN LET value == StripComment(Trim(MatchValue(line)))
             IN  <<DjangoSetting(MatchName(line),
                                 IF OpensMultiline(value)
                                 THEN MultilineValue(ls, n + 1, value, value)
                                 ELSE value,
                                 n)>>
        ELSE <<>>

\* A = x
SPlain == <<"A", " ", "=", " ", "x">>

\* A = x  #x
SCommented == <<"A", " ", "=", " ", "x", " ", " ", "#", "x">>

\* B = #x
SHashValue == <<"B", " ", "=", " ", "#", "x">>

\* B = [
SOpenBracket == <<"B", " ", "=", " ", "[">>

\* A = (x
SOpenParen == <<"A", " ", "=", " ", "(", "x">>

\* B = (x) [
SClosedAndOpen == <<"B", " ", "=", " ", "(", "x", ")", " ", "[">>

\*   x,
SItem == <<" ", " ", "x", ",">>

\* ]
SCloseBracket == <<"]">>

\* )
SCloseParen == <<")">>

\*   A = x
SIndented == <<" ", " ", "A", " ", "=", " ", "x">>

\* #x
SCommentLine == <<"#", "x">>

SBlankLine == <<" ">>

SettingsAlphabet ==
    {SPlain, SCommented, SHashValue, SOpenBracket, SOpenParen, SClosedAndOpen,
     SItem, SCloseBracket, SCloseParen, SIndented, SCommentLine, SBlankLine}

MaxSettingsLines == 4

\* One iteration of for (i = 0; i < lines.length; i++).
SettingsLine ==
    /\ settingsPc = "loop"
    /\ settingsI < Len(settingsLines)
    /\ settings' = settings \o SettingsOfLine(settingsLines, settingsI)
    /\ settingsI' = settingsI + 1
    /\ UNCHANGED <<settingsLines, settingsPc>>
    /\ UNCHANGED <<modelVars, urlVars, cacheVars, adminVars, providerVars>>

\* return settings
SettingsReturn ==
    /\ settingsPc = "loop"
    /\ settingsI = Len(settingsLines)
    /\ settingsPc' = "done"
    /\ UNCHANGED <<settingsLines, settingsI, settings>>
    /\ UNCHANGED <<modelVars, urlVars, cacheVars, adminVars, providerVars>>

SettingsNext == SettingsLine \/ SettingsReturn

\* extractSettings has read its file.
InitSettings ==
    /\ settingsLines \in Files(SettingsAlphabet, MaxSettingsLines)
    /\ settingsI = 0
    /\ settings = <<>>
    /\ settingsPc = "loop"
    /\ NoModels
    /\ NoUrls
    /\ NoCache
    /\ NoAdmin
    /\ NoProvider

SpecSettings == InitSettings /\ [][SettingsNext]_vars

----------------------------------------------------------------------------
(* extractAdminClasses: three global regular expressions over the content. *)

\* What the three expressions see of a line of the content.
AdminLine(kind, name, model) == [kind |-> kind, name |-> name, model |-> model]

\* class PostAdmin(admin.ModelAdmin):
AClass == AdminLine("adminClass", "PostAdmin", "")

\* class Helper(Base):
AOtherClass == AdminLine("class", "Helper", "")

\* admin.site.register(Post)
ARegister == AdminLine("register", "", "Post")

\* admin.site.register(Tag, TagAdmin)
ARegisterWith == AdminLine("register", "TagAdmin", "Tag")

\* @admin.register(Post)
ADecorator == AdminLine("decorator", "", "Post")

\*     model = Comment
AModel == AdminLine("model", "", "Comment")

\*     proxy_model = Tag
AModelTag == AdminLine("model", "", "Tag")

\*     list_display = ('title',)
AText == AdminLine("text", "", "")

ABlank == AdminLine("blank", "", "")

DjangoAdminClass(name, lineNumber, modelName) ==
    [name |-> name, lineNumber |-> lineNumber, modelName |-> modelName]

\* classRegex matches on line n (0-based).
AdminClassRegex(ls, n) == ls[n + 1].kind = "adminClass"

\* registerRegex matches on line n.
RegisterRegex(ls, n) == ls[n + 1].kind = "register"

\* The line on which the text after line n goes on: the first that is not
\* blank, or the number of lines.
NextTextLine(ls, n) ==
    IF \E m \in (n + 1)..(Len(ls) - 1) : ls[m + 1].kind # "blank"
    THEN CHOOSE m \in (n + 1)..(Len(ls) - 1) :
            /\ ls[m + 1].kind # "blank"
            /\ \A k \in (n + 1)..(m - 1) : ls[k + 1].kind = "blank"
    ELSE Len(ls)

\* decoratorRegex matches from line n: the decorator, line ends and white
\* space, then class and a name.
DecoratorRegex(ls, n) ==
    /\ ls[n + 1].kind = "decorator"
    /\ NextTextLine(ls, n) < Len(ls)
    /\ ls[NextTextLine(ls, n) + 1].kind \in {"adminClass", "class"}

\* A variant of ModelAfter that searches the whole content.
ModelAfterFromStart(ls, n) ==
    IF \E m \in 0..(Len(ls) - 1) : ls[m + 1].kind = "model"
    THEN ls[(CHOOSE m \in 0..(Len(ls) - 1) :
                /\ ls[m + 1].kind = "model"
                /\ \A k \in 0..(m - 1) : ls[k + 1].kind # "model") + 1].model
    ELSE ""

\* modelRegex.exec on the content from the class match on: the first
\* model = <name>, wherever it stands; '' when there is none.
ModelAfter(ls, n) ==
    IF \E m \in n..(Len(ls) - 1) : ls[m + 1].kind = "model"
    THEN ls[(CHOOSE m \in n..(Len(ls) - 1) :
                /\ ls[m + 1].kind = "model"
                /\ \A k \in n..(m - 1) : ls[k + 1].kind # "model") + 1].model
    ELSE ""

\* while ((classMatch = classRegex.exec(content)) !== null), from line n on
RECURSIVE ClassEntries(_, _)
ClassEntries(ls, n) ==
    IF n >= Len(ls) THEN <<>>
    ELSE (IF AdminClassRegex(ls, n)
          THEN <<DjangoAdminClass(ls[n + 1].name, n, ModelAfter(ls, n))>>
          ELSE <<>>) \o ClassEntries(ls, n + 1)

\* while ((registerMatch = registerRegex.exec(content)) !== null)
RECURSIVE RegisterEntries(_, _)
RegisterEntries(ls, n) ==
    IF n >= Len(ls) THEN <<>>
    ELSE (IF RegisterRegex(ls, n)
          THEN <<DjangoAdminClass(IF ls[n + 1].name # "" THEN ls[n + 1].name
                                  ELSE "ModelAdmin",
                                  n, ls[n + 1].model)>>
          ELSE <<>>) \o RegisterEntries(ls, n + 1)

\* A variant of DecoratorEntries that leaves out a class the class scan has
\* reported.
RECURSIVE DecoratorEntriesOnce(_, _)
DecoratorEntriesOnce(ls, n) ==
    IF n >= Len(ls) THEN <<>>
    ELSE (IF DecoratorRegex(ls, n) /\ ls[NextTextLine(ls, n) + 1].kind # "adminClass"
          THEN <<DjangoAdminClass(ls[NextTextLine(ls, n) + 1].name, n, ls[n + 1].model)>>
          ELSE <<>>) \o DecoratorEntriesOnce(ls, n + 1)

\* while ((decoratorMatch = decoratorRegex.exec(content)) !== null)
RECURSIVE DecoratorEntries(_, _)
DecoratorEntries(ls, n) ==
    IF n >= Len(ls) THEN <<>>
    ELSE (IF DecoratorRegex(ls, n)
          THEN <<DjangoAdminClass(ls[NextTextLine(ls, n) + 1].name, n, ls[n + 1].model)>>
          ELSE <<>>) \o DecoratorEntries(ls, n + 1)

AdminAlphabet ==
    {AClass, AOtherClass, ARegister, ARegisterWith, ADecorator, AModel, AModelTag,
     AText, ABlank}

MaxAdminLines == 4

\* The class loop.
AdminClassLoop ==
    /\ adminPc = "class"
    /\ adminClasses' = adminClasses \o ClassEntries(adminContent, 0)
    /\ adminPc' = "register"
    /\ UNCHANGED adminContent
    /\ UNCHANGED <<modelVars, urlVars, cacheVars, settingsVars, providerVars>>

\* The admin.site.register loop.
AdminRegisterLoop ==
    /\ adminPc = "register"
    /\ adminClasses' = adminClasses \o RegisterEntries(adminContent, 0)
    /\ adminPc' = "decorator"
    /\ UNCHANGED adminContent
    /\ UNCHANGED <<modelVars, urlVars, cacheVars, settingsVars, providerVars>>

\* The @admin.register loop, and the return.
AdminDecoratorLoop ==
    /\ adminPc = "decorator"
    /\ adminClasses' = adminClasses \o DecoratorEntries(adminContent, 0)
    /\ adminPc' = "done"
    /\ UNCHANGED adminContent
    /\ UNCHANGED <<modelVars, urlVars, cacheVars, settingsVars, providerVars>>

AdminNext == AdminClassLoop \/ AdminRegisterLoop \/ AdminDecoratorLoop

\* extractAdminClasses has read its file.
InitAdmin ==
    /\ adminContent \in Files(AdminAlphabet, MaxAdminLines)
    /\ adminClasses = <<>>
    /\ adminPc = "class"
    /\ NoModels
    /\ NoUrls
    /\ NoCache
    /\ NoSettings
    /\ NoProvider

SpecAdmin == InitAdmin /\ [][AdminNext]_vars

----------------------------------------------------------------------------
(* What the text of a file says, independently of the scanner.             *)

\* The least set of class names closed under "names a known base" and
\* "has a base in the set".
RECURSIVE RecordNamesFrom(_, _)
RecordNamesFrom(ls, known) ==
    LET more == {ls[k].name : k \in {n \in 1..Len(ls) :
                    TrimmedClassMatch(ls[n]) /\ InheritsKnown(ls[n], known)}}
    IN  IF more \subseteq known THEN known ELSE RecordNamesFrom(ls, known \cup more)

RecordNames(ls) == RecordNamesFrom(ls, FirstPass(ls))

\* Line r (0-based) is a top-level header of a record class.
RecordHeader(ls, r) ==
    /\ r \in 0..(Len(ls) - 1)
    /\ ClassRegex(ls[r + 1])
    /\ ls[r + 1].name \in RecordNames(ls)

\* Line n lies in the scope of the record whose header is line r: every line
\* after the header up to n is blank or indented deeper than the header.
InScopeOf(ls, r, n) ==
    /\ RecordHeader(ls, r)
    /\ n \in (r + 1)..(Len(ls) - 1)
    /\ \A m \in (r + 1)..n : IsBlank(ls[m + 1]) \/ ls[m + 1].ind > ls[r + 1].ind

\* A class Meta line lies between header r and line n.
AfterMeta(ls, r, n) == \E m \in (r + 1)..(n - 1) : MetaClassRegex(ls[m + 1])

\* The fields with declaration line n that the output lists under the
\* records declared at line r.
FieldsAt(models, r, n) ==
    {<<k, j>> \in (1..Len(models)) \X (0..(Len(lines) + 1)) :
        /\ models[k].lineNumber = r
        /\ j \in 1..Len(models[k].fields)
        /\ models[k].fields[j].lineNumber = n}

Done == pc = "done"

----------------------------------------------------------------------------
(* Claims on the field scan.                                               *)

\* C1: every Field listed under a record was declared in that record's own
\* scope: its declarationLine is greater than the record's and smaller than
\* that of every record that follows it in the output.
C1_FieldsInOwnRecord ==
    Done =>
        \A k \in 1..Len(sc.models) :
            \A j \in 1..Len(sc.models[k].fields) :
                /\ sc.models[k].fields[j].lineNumber > sc.models[k].lineNumber
                /\ \A k2 \in (k + 1)..Len(sc.models) :
                      sc.models[k].fields[j].lineNumber < sc.models[k2].lineNumber

\* C2: every line that matches a constructor pattern in an open record's
\* scope, outside a Meta block, yields exactly one Field in that record's
\* list, however the record's scope ends.
C2_EveryFieldLineReported ==
    Done =>
        \A r \in 0..(Len(lines) - 1) :
            \A n \in (r + 1)..(Len(lines) - 1) :
                (/\ InScopeOf(lines, r, n)
                 /\ ~AfterMeta(lines, r, n)
                 /\ FieldRegex(lines[n + 1]))
                => Cardinality(FieldsAt(sc.models, r, n)) = 1

\* C3: the fields of each record are in source order: the declarationLine
\* values of consecutive fields are strictly increasing.
C3_FieldsInSourceOrder ==
    Done =>
        \A k \in 1..Len(sc.models) :
            \A j \in 1..(Len(sc.models[k].fields) - 1) :
                sc.models[k].fields[j].lineNumber
                    < sc.models[k].fields[j + 1].lineNumber

\* Parenthesis depth of the text after lines i..i+m (0-based i).
RECURSIVE Depth(_, _, _)
Depth(ls, a, m) ==
    IF m < 0 THEN 0 ELSE Depth(ls, a, m - 1) + LineParens(ls[a + m + 1])

\* Lines a..a+k of record r are one field definition: a constructor line
\* that leaves a parenthesis open, then k lines of argument text, the
\* parentheses balanced at line a+k and not before.
MultiLineField(ls, r, a, k) ==
    /\ k >= 1
    /\ InScopeOf(ls, r, a + k)
    /\ a > r
    /\ ~AfterMeta(ls, r, a)
    /\ FieldRegex(ls[a + 1])
    /\ \A m \in 1..k : ls[a + m + 1].kind = "text"
    /\ \A m \in 0..(k - 1) : Depth(ls, a, m) > 0
    /\ Depth(ls, a, k) = 0

\* C6: a multi-line field spanning lines i..i+k, balanced only at line i+k,
\* is reported as one Field whose declarationLine is i, and no Field carries
\* the line of a continuation or closing line.
C6_MultiLineFieldAtOpeningLine ==
    Done =>
        \A r \in 0..(Len(lines) - 1) :
            \A n \in (r + 1)..(Len(lines) - 1) :
                \A k \in 1..(Len(lines) - 1 - n) :
                    MultiLineField(lines, r, n, k)
                    => /\ Cardinality(FieldsAt(sc.models, r, n)) = 1
                       /\ \A m \in 1..k : FieldsAt(sc.models, r, n + m) = {}

\* Line n is a lone @property line and line n+1 a method header, both in the
\* scope of record r.
PropertyPair(ls, r, n) ==
    /\ InScopeOf(ls, r, n + 1)
    /\ n > r
    /\ IsPropertyDecorator(ls[n + 1])
    /\ MethodMatch(ls[n + 2])

\* What C7 says of the pair at lines n, n+1 of record r.
PropertyReported(ls, models, r, n) ==
    /\ Cardinality(FieldsAt(models, r, n + 1)) = 1
    /\ \A e \in FieldsAt(models, r, n + 1) :
          models[e[1]].fields[e[2]] = Field(ls[n + 2].name, "property", n + 1, TRUE)
    /\ (InScopeOf(ls, r, n + 2) /\ MethodMatch(ls[n + 3]))
       => \A k \in 1..Len(models) :
             \A j \in 1..Len(models[k].fields) :
                models[k].fields[j].lineNumber # n + 2

\* C7 (as stated): in a record's scope a lone @property line directly
\* followed by a method header yields exactly one computed Field (method
\* name, type 'property', the header's line, computed), and a following
\* undecorated method yields none.
C7_PropertyPairReported ==
    Done =>
        \A r \in 0..(Len(lines) - 1) :
            \A n \in (r + 1)..(Len(lines) - 2) :
                PropertyPair(lines, r, n)
                => PropertyReported(lines, sc.models, r, n)

\* C7 (amended): the same, for a pair that no class Meta line of the record
\* precedes.
C7_PropertyPairReportedOutsideMeta ==
    Done =>
        \A r \in 0..(Len(lines) - 1) :
            \A n \in (r + 1)..(Len(lines) - 2) :
                (PropertyPair(lines, r, n) /\ ~AfterMeta(lines, r, n + 1))
                => PropertyReported(lines, sc.models, r, n)

\* C7 witness: a decorated method followed by an undecorated one, scanned
\* to the end.
C7_Witness ==
    /\ Done
    /\ \E r \in 0..(Len(lines) - 1) :
          \E n \in (r + 1)..(Len(lines) - 3) :
              /\ PropertyPair(lines, r, n)
              /\ ~AfterMeta(lines, r, n + 1)
              /\ InScopeOf(lines, r, n + 2)
              /\ MethodMatch(lines[n + 3])
              /\ Cardinality(FieldsAt(sc.models, r, n + 1)) = 1

----------------------------------------------------------------------------
(* Claims on the record-name set.                                          *)

\* Line n (0-based) is reported as a record: the output holds a record of
\* its class name declared at line n.
ReportedAt(ls, models, n) ==
    \E k \in 1..Len(models) :
        models[k].name = ls[n + 1].name /\ models[k].lineNumber = n

\* Line n is a class header, one of whose bases is the name of a record the
\* output reports.
InheritsReported(ls, models, n) ==
    /\ TrimmedClassMatch(ls[n + 1])
    /\ \E b \in 1..Len(ls[n + 1].bases) :
          \E k \in 1..Len(models) :
              ls[n + 1].bases[b] = <<models[k].name>>

\* C4: a class that inherits from a locally declared record class is in the
\* record-name set and in the output, for every chain length and whether it
\* is declared before or after its base; the set is closed under
\* inheritance.
C4_SubclassesAreRecords ==
    Done =>
        /\ \A n \in 0..(Len(lines) - 1) :
              (TrimmedClassMatch(lines[n + 1])
               /\ InheritsKnown(lines[n + 1], sc.modelClasses))
              => lines[n + 1].name \in sc.modelClasses
        /\ \A n \in 0..(Len(lines) - 1) :
              (ClassRegex(lines[n + 1]) /\ InheritsReported(lines, sc.models, n))
              => ReportedAt(lines, sc.models, n)

\* Line n is a class header that names the root marker (models.Model or
\* Model, under any module qualifier) in its base list.
NamesRootMarker(ls, n) ==
    /\ TrimmedClassMatch(ls[n + 1])
    /\ \E b \in 1..Len(ls[n + 1].bases) : LastSegment(ls[n + 1].bases[b]) = "Model"

\* C5 (as stated): a class whose base list names the root marker is in the
\* record-name set and is reported as a record, wherever its declaration
\* line is.
C5_RootClassReported ==
    (Done /\ variant = "twoPass") =>
        \A n \in 0..(Len(lines) - 1) :
            NamesRootMarker(lines, n)
            => /\ lines[n + 1].name \in sc.modelClasses
               /\ ReportedAt(lines, sc.models, n)

\* C5 (amended): a class whose base list names the root marker is in the
\* record-name set wherever it is declared, and is reported as a record when
\* its header is at zero indentation.
C5_TopLevelRootClassReported ==
    (Done /\ variant = "twoPass") =>
        \A n \in 0..(Len(lines) - 1) :
            NamesRootMarker(lines, n)
            => /\ lines[n + 1].name \in sc.modelClasses
               /\ lines[n + 1].ind = 0 => ReportedAt(lines, sc.models, n)

\* C5 witness: a root class declared on the last line of a file, after its
\* own subclass, and reported.
C5_Witness ==
    /\ Done
    /\ variant = "twoPass"
    /\ Len(lines) >= 2
    /\ lines[1] = LSubB
    /\ NamesRootMarker(lines, Len(lines) - 1)
    /\ ReportedAt(lines, sc.models, Len(lines) - 1)

----------------------------------------------------------------------------
(* Route inclusion.                                                        *)

StartsWith(s, p) == Len(p) <= Len(s) /\ SubSeq(s, 1, Len(p)) = p

\* The line of its file at which the k-th call in progress stands.
LineOfFrame(k) == routeFiles[callStack[k].file][callStack[k].idx + 1]

\* prefix of the outermost call, then the literal prefixes of the include
\* lines that led from it to the k-th call, outermost first.
RECURSIVE ChainPrefix(_)
ChainPrefix(k) ==
    IF k = 1 THEN callStack[1].prefix
    ELSE ChainPrefix(k - 1) \o
         (IF LineOfFrame(k - 1).hasNs THEN LineOfFrame(k - 1).nsPrefix ELSE <<>>)

\* C8: extractUrls terminates for every include graph.  A call is a function
\* of its file and of the file system, so a call that enters a file whose
\* call is still in progress repeats itself for ever: termination requires
\* that no file is on the call stack twice, and then the accumulated prefix
\* holds the outermost prefix and at most one literal prefix per route file.
C8_IncludeRecursionBounded ==
    /\ \A a \in DOMAIN callStack : \A b \in DOMAIN callStack :
          a # b => callStack[a].file # callStack[b].file
    /\ \A k \in DOMAIN callStack :
          Len(callStack[k].prefix)
              <= Len(callStack[1].prefix) + Cardinality(DOMAIN routeFiles) - 1

\* C9: the entries a call on an included file returns (its own and those of
\* the files it includes in turn) all have a pattern that starts with the
\* including call's prefix followed by the literal prefix of the include
\* line, nothing when the line has none; along a chain of nested includes
\* the prefix is the concatenation from the outermost to the innermost.
C9_IncludedEntriesCarryPrefix ==
    /\ [](\A k \in DOMAIN callStack :
            /\ callStack[k].prefix = ChainPrefix(k)
            /\ \A e \in DOMAIN callStack[k].urls :
                  StartsWith(callStack[k].urls[e].pattern, ChainPrefix(k)))
    /\ [][(Len(callStack) >= 2 /\ Len(callStack') = Len(callStack) - 1) =>
            LET n      == Len(callStack)
                caller == callStack[n - 1]
                line   == LineOfFrame(n - 1)
                q      == IF line.hasNs THEN line.nsPrefix ELSE <<>>
            IN  /\ line.include /\ ~line.direct
                /\ callStack'[n - 1].urls = caller.urls \o Top.urls
                /\ \A e \in DOMAIN Top.urls :
                      StartsWith(Top.urls[e].pattern, caller.prefix \o q)]_vars

\* extractUrls('site/urls.py', 'api/') has returned an entry that came
\* through include('blog.urls', 'blog/') and then include('shop.urls',
\* 'shop/').
C9_Witness ==
    /\ urlsPc = "done"
    /\ \E e \in DOMAIN urlsResult :
          urlsResult[e].pattern = <<"api/", "blog/", "shop/", "home/">>

----------------------------------------------------------------------------
(* Independence of extractModels calls.                                    *)

\* C10: the array a call on a path returns is the extraction of a content
\* the file had while that call was running, whatever other calls did, and
\* no two calls return the same array.
C10_CallsAreIndependent ==
    /\ \A c \in DOMAIN calls :
          calls[c].pc = "returned" =>
              heap[calls[c].ret] \in
                  {ExtractModelsOf(content, "twoPass") : content \in calls[c].during}
    /\ \A c \in DOMAIN calls : \A d \in DOMAIN calls :
          (c # d /\ calls[c].pc = "returned" /\ calls[d].pc = "returned")
              => calls[c].ret # calls[d].ret

----------------------------------------------------------------------------
(* Claims on the records of one result.                                    *)

\* C16: no two records of one result have the same name.
C16_RecordNamesUnique ==
    Done =>
        \A a \in 1..Len(sc.models) : \A b \in 1..Len(sc.models) :
            a # b => sc.models[a].name # sc.models[b].name

\* The record whose header is line r is still open at the end of the file:
\* every line after the header is blank or indented.
OpenAtEnd(ls, r) ==
    /\ RecordHeader(ls, r)
    /\ \A m \in (r + 1)..(Len(ls) - 1) : IsBlank(ls[m + 1]) \/ ls[m + 1].ind > ls[r + 1].ind

\* Line n is the last field constructor line of the record open at the end
\* of the file: the field the end of the file finds pending or open.
LastFieldLine(ls, r, n) ==
    /\ OpenAtEnd(ls, r)
    /\ n \in (r + 1)..(Len(ls) - 1)
    /\ FieldRegex(ls[n + 1])
    /\ ~AfterMeta(ls, r, n)
    /\ \A m \in (n + 1)..(Len(ls) - 1) :
          ~(FieldRegex(ls[m + 1]) /\ ~AfterMeta(ls, r, m))

\* C19: at the end of the file the record that is still open is output
\* once, as the last record, and the field that is still pending or open is
\* listed in it with the line it was declared on.
C19_TrailingStateFlushed ==
    Done =>
        \A r \in 0..(Len(lines) - 1) :
            OpenAtEnd(lines, r) =>
                /\ sc.models # <<>>
                /\ sc.models[Len(sc.models)].lineNumber = r
                /\ sc.models[Len(sc.models)].name = lines[r + 1].name
                /\ Cardinality({k \in 1..Len(sc.models) : sc.models[k].lineNumber = r}) = 1
                /\ \A n \in 0..(Len(lines) - 1) :
                      LastFieldLine(lines, r, n) =>
                          \E j \in 1..Len(sc.models[Len(sc.models)].fields) :
                              sc.models[Len(sc.models)].fields[j]
                                  = Field(lines[n + 1].name, lines[n + 1].typ, n, FALSE)

\* A record open at the end of the file whose last line opens a field and
\* never closes it has been flushed.
C19_Witness ==
    /\ Done
    /\ Len(lines) >= 2
    /\ \E r \in 0..(Len(lines) - 2) : LastFieldLine(lines, r, Len(lines) - 1)
    /\ GroupParens(lines[Len(lines)]) > 0

\* C20: a file none of whose classes is in the record-name set yields the
\* empty sequence, whatever other lines it has.
C20_NoRecordClassNoRecords ==
    (Done /\ RecordNames(lines) = {}) => sc.models = <<>>

\* A file with a class outside the record-name set, a field line under it
\* and a decorator or Meta line has been scanned to its end.
C20_Witness ==
    /\ Done
    /\ RecordNames(lines) = {}
    /\ \E n \in 1..Len(lines) : ClassRegex(lines[n])
    /\ \E n \in 1..Len(lines) : FieldRegex(lines[n])
    /\ \E n \in 1..Len(lines) : IsPropertyDecorator(lines[n]) \/ MetaClassRegex(lines[n])

----------------------------------------------------------------------------
(* Line numbers of route entries.                                          *)

\* C17: every entry extractUrls(f) returns carries a line number that is an
\* index into the lines of f, and the entry's declaration is on that line of
\* f, also when the entry was obtained through an include.
C17_RouteLinesIndexTheFile ==
    urlsPc = "done" =>
        \A e \in DOMAIN urlsResult :
            LET n == urlsResult[e].lineNumber
            IN  /\ n \in 0..(Len(routeFiles["site"]) - 1)
                /\ routeFiles["site"][n + 1].direct
                /\ routeFiles["site"][n + 1].view = urlsResult[e].viewName
                /\ \E prefix \in Prefixes :
                      urlsResult[e].pattern = prefix \o routeFiles["site"][n + 1].pattern

----------------------------------------------------------------------------
(* Failed reads and repeated calls.                                        *)

\* C14: a call on a file that cannot be read returns an empty sequence.
C14_UnreadableFileYieldsEmpty ==
    \A c \in DOMAIN calls :
        (calls[c].pc = "returned" /\ calls[c].during = {Unreadable})
            => heap[calls[c].ret] = <<>>

\* C15: two calls that ran on the same text return equal sequences, served
\* from the cache or not.
C15_SameTextSameResult ==
    \A c \in DOMAIN calls : \A d \in DOMAIN calls :
        (/\ calls[c].pc = "returned"
         /\ calls[d].pc = "returned"
         /\ calls[c].path = calls[d].path
         /\ calls[c].during = calls[d].during
         /\ \E content \in Contents : calls[c].during = {content})
            => heap[calls[c].ret] = heap[calls[d].ret]

----------------------------------------------------------------------------
(* Claims on extractSettings.                                              *)

SettingsDone == settingsPc = "done"

\* Line n starts at column 0 with UPPER_IDENTIFIER = value.
TopLevelSetting(ls, n) ==
    /\ n \in 0..(Len(ls) - 1)
    /\ SettingRegex(ls[n + 1])

\* The entries of the result whose line number is n.
SettingsAt(n) == {k \in 1..Len(settings) : settings[k].lineNumber = n}

\* C11: the result has one entry for exactly every zero-indentation line
\* that matches UPPER_IDENTIFIER = value, in increasing line order, repeated
\* keys included; blank, comment and indented lines give no entry.
C11_OneEntryPerTopLevelSetting ==
    SettingsDone =>
        /\ \A n \in 0..(Len(settingsLines) - 1) :
              IF TopLevelSetting(settingsLines, n)
              THEN /\ Cardinality(SettingsAt(n)) = 1
                   /\ \A k \in SettingsAt(n) :
                         settings[k].name = settingsLines[n + 1][1]
              ELSE SettingsAt(n) = {}
        /\ \A k \in 1..(Len(settings) - 1) :
              settings[k].lineNumber < settings[k + 1].lineNumber

\* The value the declaration on line n has before any folding: the text
\* after the '=', without its trailing comment.
DeclaredValue(ls, n) ==
    LET v == Trim(MatchValue(Trim(ls[n + 1])))
    IN  IF IndexOf(v, "#") > 0 THEN Trim(Substring(v, 0, IndexOf(v, "#"))) ELSE v

\* The value declared on line n opens a bracket, brace or parenthesis, and
\* the closing character first appears on line n + 3.
FoldsOverFour(ls, n) ==
    /\ TopLevelSetting(ls, n)
    /\ n + 3 <= Len(ls) - 1
    /\ OpensMultiline(DeclaredValue(ls, n))
    /\ ~ClosesMultiline(DeclaredValue(ls, n), ls[n + 2])
    /\ ~ClosesMultiline(DeclaredValue(ls, n), ls[n + 3])
    /\ ClosesMultiline(DeclaredValue(ls, n), ls[n + 4])

\* C12: a value that opens a bracket on line i and closes it on line i + 3
\* gives one entry for the four lines, with line number i and the four
\* texts joined by single spaces; the three folded lines give no entry.
C12_FoldedLinesGiveOneEntry ==
    SettingsDone =>
        \A n \in 0..(Len(settingsLines) - 1) :
            FoldsOverFour(settingsLines, n) =>
                /\ Cardinality(SettingsAt(n)) = 1
                /\ \A k \in SettingsAt(n) :
                      settings[k].value =
                          DeclaredValue(settingsLines, n)
                              \o <<" ">> \o Trim(settingsLines[n + 2])
                              \o <<" ">> \o Trim(settingsLines[n + 3])
                              \o <<" ">> \o Trim(settingsLines[n + 4])
                /\ SettingsAt(n + 1) = {}
                /\ SettingsAt(n + 2) = {}
                /\ SettingsAt(n + 3) = {}

\* C13 (as stated): the reported value is the value text cut before its
\* first '#' and trimmed when that '#' is not its first character, and the
\* value text unchanged otherwise.
C13_CommentStripped ==
    SettingsDone =>
        \A k \in 1..Len(settings) :
            settings[k].value = DeclaredValue(settingsLines, settings[k].lineNumber)

\* C13 (amended): so it is when the stripped value is not folded; a value
\* that opens a bracket it does not close is reported with the following
\* lines joined to the stripped text.
C13_CommentStrippedBeforeFolding ==
    SettingsDone =>
        \A k \in 1..Len(settings) :
            LET declared == DeclaredValue(settingsLines, settings[k].lineNumber)
            IN  IF OpensMultiline(declared)
                THEN Len(declared) <= Len(settings[k].value)
                     /\ SubSeq(settings[k].value, 1, Len(declared)) = declared
                ELSE settings[k].value = declared

\* 'A = x  #x' has been reported with value 'x' and 'B = #x' with '#x'.
C13_Witness ==
    /\ SettingsDone
    /\ \E k \in 1..Len(settings) :
          /\ settingsLines[settings[k].lineNumber + 1] = SCommented
          /\ settings[k].value = <<"x">>
    /\ \E k \in 1..Len(settings) :
          /\ settingsLines[settings[k].lineNumber + 1] = SHashValue
          /\ settings[k].value = <<"#", "x">>

----------------------------------------------------------------------------
(* Claims on extractAdminClasses.                                          *)

\* The lines that declare an admin class, that call admin.site.register, and
\* that hold an @admin.register decorator with a class on the next line of
\* text.
ClassIdiomLines(ls) == {n \in 0..(Len(ls) - 1) : ls[n + 1].kind = "adminClass"}

RegisterCallLines(ls) == {n \in 0..(Len(ls) - 1) : ls[n + 1].kind = "register"}

DecoratedClassLines(ls) ==
    {n \in 0..(Len(ls) - 1) :
        /\ ls[n + 1].kind = "decorator"
        /\ \E m \in (n + 1)..(Len(ls) - 1) :
              /\ ls[m + 1].kind \in {"adminClass", "class"}
              /\ \A k \in (n + 1)..(m - 1) : ls[k + 1].kind = "blank"}

\* Entries from..to of the result are one entry per line of the set, in
\* text order.
AdminGroup(from, to, lineSet) ==
    /\ {adminClasses[k].lineNumber : k \in from..to} = lineSet
    /\ \A k \in from..(to - 1) :
          adminClasses[k].lineNumber < adminClasses[k + 1].lineNumber

\* C18: the result is the class-based entries, then the admin.site.register
\* entries, then the @admin.register entries, each group in text order and
\* nothing deduplicated.
C18_ThreeScansConcatenated ==
    adminPc = "done" =>
        LET c == Cardinality(ClassIdiomLines(adminContent))
            r == Cardinality(RegisterCallLines(adminContent))
            d == Cardinality(DecoratedClassLines(adminContent))
        IN  /\ Len(adminClasses) = c + r + d
            /\ AdminGroup(1, c, ClassIdiomLines(adminContent))
            /\ AdminGroup(c + 1, c + r, RegisterCallLines(adminContent))
            /\ AdminGroup(c + r + 1, c + r + d, DecoratedClassLines(adminContent))

\* A decorated admin class followed by a register call has been reported:
\* the class twice, first by its own line, last by the decorator's, the
\* register call between them.
C18_Witness ==
    /\ adminPc = "done"
    /\ adminContent = <<ADecorator, AClass, ARegister>>
    /\ adminClasses = <<DjangoAdminClass("PostAdmin", 1, ""),
                        DjangoAdminClass("ModelAdmin", 2, "Post"),
                        DjangoAdminClass("PostAdmin", 0, "Post")>>

----------------------------------------------------------------------------
(* The project search of DjangoStructureProvider.  A name or a pattern is  *)
(* the sequence of its characters, a run of letters standing as one        *)
(* character; a path is the sequence of its segments.                      *)

\* The one workspace folder and the directories it holds; what these hold
\* is the workspace's below.
WorkspaceFolder == <<(<<"ws">>)>>

GitDir   == <<".git">>
BuildDir == <<"bui", "ld">>
ProjDir  == <<"proj">>

\* path.join(directory, name)
Join(directory, name) == Append(directory, name)

BaseName(dirPath) == dirPath[Len(dirPath)]

\* String.prototype.toLowerCase
LowerChar(ch) == IF ch = "Bui" THEN "bui" ELSE ch

ToLowerCase(str) == [k \in 1..Len(str) |-> LowerChar(str[k])]

\* The segments of path.relative(from, to).
RECURSIVE RelativeSegments(_, _)
RelativeSegments(from, to) ==
    IF from # <<>> /\ to # <<>> /\ from[1] = to[1]
    THEN RelativeSegments(Tail(from), Tail(to))
    ELSE [k \in 1..Len(from) |-> <<"..">>] \o to

\* The segments joined by '/'.
RECURSIVE JoinSlash(_)
JoinSlash(segments) ==
    IF segments = <<>> THEN <<>>
    ELSE IF Len(segments) = 1 THEN segments[1]
    ELSE segments[1] \o <<"/">> \o JoinSlash(Tail(segments))

Relative(from, to) == JoinSlash(RelativeSegments(from, to))

EndsWith(str, suffix) ==
    /\ Len(suffix) <= Len(str)
    /\ SubSeq(str, Len(str) - Len(suffix) + 1, Len(str)) = suffix

\* String.prototype.includes with a string argument
IncludesString(str, part) ==
    \E k \in 0..(Len(str) - Len(part)) : SubSeq(str, k + 1, k + Len(part)) = part

\* new RegExp('^' + escaped pattern with '*' as '.*' + '$', 'i').test(str)
RECURSIVE RegexTest(_, _)
RegexTest(pattern, str) ==
    IF pattern = <<>> THEN str = <<>>
    ELSE IF pattern[1] = "*"
         THEN \E k \in 0..Len(str) :
                  RegexTest(Tail(pattern), SubSeq(str, k + 1, Len(str)))
         ELSE /\ str # <<>>
              /\ LowerChar(str[1]) = LowerChar(pattern[1])
              /\ RegexTest(Tail(pattern), Tail(str))

\* The patterns every load adds at the end.
DefaultPatterns == <<GitDir, <<".vscode">>, <<"__pycache__">>>>

alwaysIgnore == {GitDir, <<".vscode">>, <<"__pycache__">>}

\* pattern.replace(/\/$/, '')
StripTrailingSlash(pattern) ==
    IF pattern # <<>> /\ pattern[Len(pattern)] = "/"
    THEN SubSeq(pattern, 1, Len(pattern) - 1)
    ELSE pattern

\* The lines of a .gitignore, trimmed, without empty and comment lines and
\* without a trailing slash.
RECURSIVE PatternsOfLines(_)
PatternsOfLines(ls) ==
    IF ls = <<>> THEN <<>>
    ELSE LET line == Trim(ls[1])
         IN  (IF line # <<>> /\ line[1] # "#"
              THEN <<StripTrailingSlash(line)>>
              ELSE <<>>) \o PatternsOfLines(Tail(ls))

HasGitignore(ws, root) == root \in DOMAIN ws.gitignore

\* loadGitignorePatterns for project root root: the pattern list and the
\* patterns a regular expression was compiled for.
LoadGitignorePatterns(ws, root) ==
    IF root = Undefined
    THEN [patterns |-> <<>>, compiled |-> {}]
    ELSE LET read == IF HasGitignore(ws, root)
                     THEN PatternsOfLines(ws.gitignore[root])
                     ELSE <<>>
         IN  [patterns |-> read \o DefaultPatterns,
              compiled |-> {read[k] : k \in {m \in 1..Len(read) : Includes(read[m], "*")}}]

\* One pattern of the list against one directory.
PatternMatches(ctx, pattern, relativePath, baseName) ==
    IF Includes(pattern, "*")
    THEN /\ pattern \in ctx.compiled
         /\ RegexTest(pattern, baseName) \/ RegexTest(pattern, relativePath)
    ELSE IF pattern # <<>> /\ pattern[1] = "/"
    THEN LET rootPattern == Tail(pattern)
         IN  \/ relativePath = rootPattern
             \/ StartsWith(relativePath, rootPattern \o <<"/">>)
    ELSE LET patternLower == ToLowerCase(pattern)
             relativePathLower == ToLowerCase(relativePath)
         IN  \/ ToLowerCase(baseName) = patternLower
             \/ relativePathLower = patternLower
             \/ IncludesString(relativePathLower, <<"/">> \o patternLower \o <<"/">>)
             \/ EndsWith(relativePathLower, <<"/">> \o patternLower)

\* isIgnoredByGitignore, with ctx the provider's gitignorePatterns,
\* compiledGitignorePatterns and projectRoot at the time of the call.
isIgnoredByGitignore(ctx, dirPath, baseName) ==
    IF ToLowerCase(baseName) \in alwaysIgnore THEN TRUE
    ELSE IF Len(ctx.patterns) = 0 THEN FALSE
    ELSE LET relativePath == IF ctx.root # Undefined
                             THEN Relative(ctx.root, dirPath)
                             ELSE baseName
         IN  \E k \in 1..Len(ctx.patterns) :
                 PatternMatches(ctx, ctx.patterns[k], relativePath, baseName)

\* cachedReadDir: the directories of a directory, in the order readdir
\* gives them.
SubdirsOf(ws, directory) ==
    IF directory = WorkspaceFolder THEN ws.order
    ELSE IF \E p \in ws.below : p[1] = directory
    THEN (CHOOSE p \in ws.below : p[1] = directory)[2]
    ELSE <<>>

\* depth is a number and the setting's type is "number": a depth is counted
\* in halves, so that 1.5 is told from 1 and from 2.  One is the number 1.
One == 2

NothingFound == [result |-> Undefined, entered |-> {}, skipped |-> {}]

\* searchForManagePy(directory, depth): the directory returned, the
\* directories the search looked into and the directories it passed over.
RECURSIVE searchForManagePy(_, _, _, _), SearchSubdirs(_, _, _, _, _)
RECURSIVE SearchSubdirsLast(_, _, _, _, _)

\* The for loop, were it to go on after a directory is found.
SearchSubdirsLast(ws, ctx, directory, dirNames, depth) ==
    IF dirNames = <<>> THEN NothingFound
    ELSE LET subdirPath == Join(directory, Head(dirNames))
             rest == SearchSubdirsLast(ws, ctx, directory, Tail(dirNames), depth)
         IN  IF isIgnoredByGitignore(ctx, subdirPath, Head(dirNames))
             THEN [rest EXCEPT !.skipped = @ \cup {subdirPath}]
             ELSE LET found == searchForManagePy(ws, ctx, subdirPath, depth - One)
                  IN  [result |-> IF rest.result # Undefined THEN rest.result
                                  ELSE found.result,
                       entered |-> found.entered \cup rest.entered,
                       skipped |-> found.skipped \cup rest.skipped]

searchForManagePy(ws, ctx, directory, depth) ==
    IF depth <= 0 THEN NothingFound
    ELSE IF directory \in ws.managePy
    THEN [result |-> directory, entered |-> {directory}, skipped |-> {}]
    ELSE IF depth > One
    THEN LET below == SearchSubdirs(ws, ctx, directory, SubdirsOf(ws, directory), depth)
         IN  [below EXCEPT !.entered = @ \cup {directory}]
    ELSE [NothingFound EXCEPT !.entered = {directory}]

\* The for loop over dirNames, from its first name on.
SearchSubdirs(ws, ctx, directory, dirNames, depth) ==
    IF dirNames = <<>> THEN NothingFound
    ELSE LET subdirPath == Join(directory, Head(dirNames))
         IN  IF isIgnoredByGitignore(ctx, subdirPath, Head(dirNames))
             THEN LET rest == SearchSubdirs(ws, ctx, directory, Tail(dirNames), depth)
                  IN  [rest EXCEPT !.skipped = @ \cup {subdirPath}]
             ELSE LET found == searchForManagePy(ws, ctx, subdirPath, depth - One)
                      rest == SearchSubdirs(ws, ctx, directory, Tail(dirNames), depth)
                  IN  IF found.result # Undefined THEN found
                      ELSE [result |-> rest.result,
                            entered |-> found.entered \cup rest.entered,
                            skipped |-> found.skipped \cup rest.skipped]

\* findDjangoProjectRoot: the search from the workspace folder with the
\* configured depth.
findDjangoProjectRoot(ws, ctx) ==
    searchForManagePy(ws, ctx, WorkspaceFolder, ws.searchDepth)

MaxSearches == 3

\* The .gitignore files of the model: a name, a wildcard pattern, a
\* root-relative pattern, a name in another case after a comment line, and a
\* file of blank space.
GitignoreFiles ==
    { <<BuildDir>>,
      <<(<<"bui", "*">>)>>,
      <<(<<"/", "bui", "ld">>)>>,
      <<(<<"#", "out">>), <<" ", "Bui", "ld", "/", " ">>>>,
      <<(<<" ">>)>> }

\* The depths 1 and 3.
SearchDepths == {One, 3 * One}

\* Which directories have a .gitignore, and its lines.
GitignoreStates ==
    UNION {[D -> GitignoreFiles] : D \in SUBSET {Join(WorkspaceFolder, ProjDir)}}

Workspaces ==
    [managePy : SUBSET {WorkspaceFolder, Join(WorkspaceFolder, BuildDir),
                        Join(WorkspaceFolder, ProjDir)},
     gitignore : GitignoreStates,
     order : {<<GitDir, BuildDir, ProjDir>>, <<ProjDir, BuildDir, GitDir>>},
     below : {{}},
     searchDepth : SearchDepths]

\* The provider's patterns, compiled expressions and project root.
Context == [patterns |-> gitignorePatterns,
            compiled |-> compiledGitignorePatterns,
            root |-> projectRoot]

\* The lookup caches are empty when the search of the constructor or of
\* refresh begins, and a search looks every path up once: its result is that
\* of the file system, and the caches are followed on their own below.

\* new DjangoStructureProvider(): the search, then the load.
Construct ==
    /\ providerPc = "new"
    /\ LET found == findDjangoProjectRoot(workspace, Context)
           loaded == LoadGitignorePatterns(workspace, found.result)
       IN  /\ projectRoot' = found.result
           /\ entered' = found.entered
           /\ skipped' = found.skipped
           /\ gitignorePatterns' = loaded.patterns
           /\ compiledGitignorePatterns' = loaded.compiled
    /\ searches' = searches + 1
    /\ providerPc' = "ready"
    /\ UNCHANGED <<workspace, lookupVars, outline>>
    /\ UNCHANGED <<modelVars, urlVars, cacheVars, settingsVars, adminVars>>

\* refresh(): clearCaches empties the compiled expressions, then the
\* search, then the load.
Refresh ==
    /\ providerPc = "ready"
    /\ searches < MaxSearches
    /\ LET found == findDjangoProjectRoot(workspace,
                        [Context EXCEPT !.compiled = {}])
           loaded == LoadGitignorePatterns(workspace, found.result)
       IN  /\ projectRoot' = found.result
           /\ entered' = found.entered
           /\ skipped' = found.skipped
           /\ gitignorePatterns' = loaded.patterns
           /\ compiledGitignorePatterns' = loaded.compiled
    /\ searches' = searches + 1
    /\ UNCHANGED <<workspace, providerPc, lookupVars, outline>>
    /\ UNCHANGED <<modelVars, urlVars, cacheVars, settingsVars, adminVars>>

\* The user writes or deletes the .gitignore of a directory.
EditGitignore ==
    /\ providerPc = "ready"
    /\ \E g \in GitignoreStates :
          /\ g # workspace.gitignore
          /\ workspace' = [workspace EXCEPT !.gitignore = g]
    /\ UNCHANGED <<projectRoot, gitignorePatterns, compiledGitignorePatterns,
                   entered, skipped, searches, providerPc, lookupVars, outline>>
    /\ UNCHANGED <<modelVars, urlVars, cacheVars, settingsVars, adminVars>>

ProviderNext == Construct \/ Refresh \/ EditGitignore

InitProvider ==
    /\ workspace \in Workspaces
    /\ projectRoot = Undefined
    /\ gitignorePatterns = <<>>
    /\ compiledGitignorePatterns = {}
    /\ entered = {}
    /\ skipped = {}
    /\ searches = 0
    /\ providerPc = "new"
    /\ NoLookups
    /\ NoOutline
    /\ NoModels
    /\ NoUrls
    /\ NoCache
    /\ NoSettings
    /\ NoAdmin

SpecProvider == InitProvider /\ [][ProviderNext]_vars

----------------------------------------------------------------------------
(* The search in a tree three levels deep, with every depth from -1 to 4   *)
(* in halves.                                                              *)

AppDir  == <<"app">>
CoreDir == <<"core">>

ProjPath == Join(WorkspaceFolder, ProjDir)
AppPath  == Join(ProjPath, AppDir)

\* proj holds .git and app, app holds core, build holds app.
DeepBelow ==
    { <<ProjPath, <<GitDir, AppDir>>>>,
      <<AppPath, <<CoreDir>>>>,
      <<Join(WorkspaceFolder, BuildDir), <<AppDir>>>> }

DeepDirectories ==
    { WorkspaceFolder, Join(WorkspaceFolder, GitDir),
      Join(WorkspaceFolder, BuildDir), Join(Join(WorkspaceFolder, BuildDir), AppDir),
      ProjPath, Join(ProjPath, GitDir), AppPath, Join(AppPath, CoreDir) }

\* At most MaxManagePy directories hold a manage.py.
MaxManagePy == 2

AllDepths == {0 - One, 0, 1, One, 3, 2 * One, 5, 3 * One, 4 * One}

DeepWorkspaces ==
    [managePy : {M \in SUBSET DeepDirectories : Cardinality(M) <= MaxManagePy},
     gitignore : {<<>>},
     order : {<<GitDir, BuildDir, ProjDir>>, <<ProjDir, BuildDir, GitDir>>},
     below : {DeepBelow},
     searchDepth : AllDepths]

InitSearch ==
    /\ workspace \in DeepWorkspaces
    /\ projectRoot = Undefined
    /\ gitignorePatterns = <<>>
    /\ compiledGitignorePatterns = {}
    /\ entered = {}
    /\ skipped = {}
    /\ searches = 0
    /\ providerPc = "new"
    /\ NoLookups
    /\ NoOutline
    /\ NoModels
    /\ NoUrls
    /\ NoCache
    /\ NoSettings
    /\ NoAdmin

SpecSearch == InitSearch /\ [][ProviderNext]_vars

----------------------------------------------------------------------------
(* The lookup caches of DjangoStructureProvider: configCache,              *)
(* fileExistsCache and directoryListCache under the one lastCacheTime.     *)

ConfigKeys == {"searchDepth", "sortOrder"}

\* The clock advances MaxLookupTicks times, clearCaches is called MaxClears
\* times.
MaxLookupTicks == 4

MaxClears == 1

\* isCacheValid(): Date.now() - this.lastCacheTime < this.cacheTtl
isCacheValid == now - lastCacheTime < cacheTtl

\* A cache entry: the value, with the time and the number of clears at
\* which it was computed.
CacheEntry(value) == [value |-> value, at |-> now, clears |-> clears]

\* What a lookup returns: the entry, with the time and the number of clears
\* at the return.
Lookup(entry) ==
    <<[value |-> entry.value, computedAt |-> entry.at,
       computedAfter |-> entry.clears, returnedAt |-> now,
       returnedAfter |-> clears]>>

\* getCachedConfig(key, defaultValue), the configured value being truthy
getCachedConfig ==
    /\ providerPc = "lookups"
    /\ \E key \in ConfigKeys :
          IF key \notin configCache \/ ~isCacheValid
          THEN /\ configCache' = configCache \cup {key}
               /\ lastCacheTime' = now
          ELSE UNCHANGED <<configCache, lastCacheTime>>
    /\ UNCHANGED <<fileExistsCache, directoryListCache, clears, lastLookup,
                   managePyExists>>
    /\ UNCHANGED <<workspace, projectRoot, gitignorePatterns,
                   compiledGitignorePatterns, entered, skipped, searches, providerPc,
                   outline>>
    /\ UNCHANGED <<modelVars, urlVars, cacheVars, settingsVars, adminVars>>

\* cachedFileExists(path.join(directory, 'manage.py'))
cachedFileExists ==
    /\ providerPc = "lookups"
    /\ IF fileExistsCache # <<>> /\ isCacheValid
       THEN /\ lastLookup' = Lookup(fileExistsCache[1])
            /\ UNCHANGED fileExistsCache
       ELSE /\ fileExistsCache' = <<CacheEntry(managePyExists)>>
            /\ lastLookup' = Lookup(CacheEntry(managePyExists))
    /\ UNCHANGED <<configCache, directoryListCache, lastCacheTime, clears,
                   managePyExists>>
    /\ UNCHANGED <<workspace, projectRoot, gitignorePatterns,
                   compiledGitignorePatterns, entered, skipped, searches, providerPc,
                   outline>>
    /\ UNCHANGED <<modelVars, urlVars, cacheVars, settingsVars, adminVars>>

\* cachedReadDir(directory): the listing holds no directory.
cachedReadDir ==
    /\ providerPc = "lookups"
    /\ IF directoryListCache # <<>> /\ isCacheValid
       THEN /\ lastLookup' = Lookup(directoryListCache[1])
            /\ UNCHANGED directoryListCache
       ELSE /\ directoryListCache' = <<CacheEntry(<<>>)>>
            /\ lastLookup' = Lookup(CacheEntry(<<>>))
    /\ UNCHANGED <<configCache, fileExistsCache, lastCacheTime, clears,
                   managePyExists>>
    /\ UNCHANGED <<workspace, projectRoot, gitignorePatterns,
                   compiledGitignorePatterns, entered, skipped, searches, providerPc,
                   outline>>
    /\ UNCHANGED <<modelVars, urlVars, cacheVars, settingsVars, adminVars>>

\* clearCaches()
clearCaches ==
    /\ providerPc = "lookups"
    /\ clears < MaxClears
    /\ configCache' = {}
    /\ fileExistsCache' = <<>>
    /\ directoryListCache' = <<>>
    /\ compiledGitignorePatterns' = {}
    /\ lastCacheTime' = 0
    /\ clears' = clears + 1
    /\ UNCHANGED <<lastLookup, managePyExists>>
    /\ UNCHANGED <<workspace, projectRoot, gitignorePatterns, entered, skipped,
                   searches, providerPc, outline>>
    /\ UNCHANGED <<modelVars, urlVars, cacheVars, settingsVars, adminVars>>

\* Time passes.
LookupTick ==
    /\ providerPc = "lookups"
    /\ now < cacheTtl + MaxLookupTicks * ClockStep
    /\ now' = now + ClockStep
    /\ UNCHANGED <<disk, modelCache, cacheExpiry, heap, calls>>
    /\ UNCHANGED <<modelVars, urlVars, settingsVars, adminVars, providerVars>>

\* manage.py is created or deleted.
ManagePyChanges ==
    /\ providerPc = "lookups"
    /\ managePyExists' = ~managePyExists
    /\ UNCHANGED <<configCache, fileExistsCache, directoryListCache, lastCacheTime,
                   clears, lastLookup>>
    /\ UNCHANGED <<workspace, projectRoot, gitignorePatterns,
                   compiledGitignorePatterns, entered, skipped, searches, providerPc,
                   outline>>
    /\ UNCHANGED <<modelVars, urlVars, cacheVars, settingsVars, adminVars>>

LookupNext ==
    \/ getCachedConfig
    \/ cachedFileExists
    \/ cachedReadDir
    \/ clearCaches
    \/ LookupTick
    \/ ManagePyChanges

\* A provider whose caches are as the field initialisers leave them.
InitLookups ==
    /\ workspace = <<>>
    /\ projectRoot = Undefined
    /\ gitignorePatterns = <<>>
    /\ compiledGitignorePatterns = {}
    /\ entered = {}
    /\ skipped = {}
    /\ searches = 0
    /\ providerPc = "lookups"
    /\ configCache = {}
    /\ fileExistsCache = <<>>
    /\ directoryListCache = <<>>
    /\ lastCacheTime = 0
    /\ clears = 0
    /\ lastLookup = <<>>
    /\ managePyExists \in BOOLEAN
    /\ NoOutline
    /\ NoModels
    /\ NoUrls
    /\ NoCache
    /\ NoSettings
    /\ NoAdmin

SpecLookups == InitLookups /\ [][LookupNext]_vars

----------------------------------------------------------------------------
(* DjangoOutlineProvider.provideDocumentSymbols.  A file name is the       *)
(* sequence of its base and its extension.  The token's flag changes only  *)
(* while no code of the call runs: before the call and during its await.   *)

ModelsPy == <<"models", ".py">>
ViewsPy  == <<"views", ".py">>
UrlsPy   == <<"urls", ".py">>
AdminPy  == <<"admin", ".py">>

\* path.basename(document.fileName) of the documents opened
DocumentNames == {ModelsPy, ViewsPy, UrlsPy, AdminPy, <<"apps", ".py">>, <<"README", ".md">>}

DjangoView(name, lineNumber, isClass) ==
    [name |-> name, lineNumber |-> lineNumber, isClass |-> isClass]

\* new vscode.DocumentSymbol(name, detail, kind, range, selectionRange)
DocumentSymbol(name, detail, kind, lineNumber) ==
    [name |-> name, detail |-> detail, kind |-> kind, line |-> lineNumber,
     children |-> <<>>]

\* The sequences of at most two of the items.
UpToTwo(items) ==
    {<<>>} \cup {<<a>> : a \in items} \cup {<<a, b>> : a \in items, b \in items}

\* What the extractor awaited for a file returns.
ExtractorResults(fileName) ==
    IF fileName = ModelsPy
    THEN {ExtractModelsOf(ls, "twoPass") :
             ls \in {<<LTop>>, <<LClassA>>, <<LClassA, LFieldOne>>,
                     <<LClassA, LFieldOne, LProp, LDef>>,
                     <<LClassA, LFieldOne, LClassB>>,
                     <<LClassA, LFieldOne, LClassB, LFieldOne>>}}
    ELSE IF fileName = ViewsPy
    THEN UpToTwo({DjangoView("index", 0, FALSE), DjangoView("PostList", 1, TRUE)})
    ELSE IF fileName = UrlsPy
    THEN UpToTwo({DjangoUrl("posts/", "views.index", 0), DjangoUrl("", "home", 1)})
    ELSE UpToTwo({DjangoAdminClass("PostAdmin", 0, "Post"),
                  DjangoAdminClass("ModelAdmin", 1, "Tag")})

\* return symbols / return []
ReturnSymbols(o, symbols) == [o EXCEPT !.pc = "returned", !.result = symbols]

\* The call, up to its first await or its return.
provideDocumentSymbols ==
    /\ outline.pc = "idle"
    /\ \E fileName \in DocumentNames :
          LET o == [outline EXCEPT !.fileName = fileName, !.symbols = <<>>]
          IN  outline' =
                  IF o.cancelled THEN ReturnSymbols(o, o.symbols)
                  ELSE IF ~EndsWith(fileName, <<".py">>) THEN ReturnSymbols(o, <<>>)
                  ELSE IF fileName \in {ModelsPy, ViewsPy, UrlsPy, AdminPy}
                  THEN [o EXCEPT !.pc = "await", !.extractorCalls = @ + 1]
                  ELSE ReturnSymbols(o, o.symbols)
    /\ UNCHANGED <<workspace, projectRoot, gitignorePatterns,
                   compiledGitignorePatterns, entered, skipped, searches, providerPc,
                   lookupVars>>
    /\ UNCHANGED <<modelVars, urlVars, cacheVars, settingsVars, adminVars>>

\* The editor requests cancellation: token.isCancellationRequested is true
\* from now on.
CancellationRequested ==
    /\ outline.pc \in {"idle", "await"}
    /\ ~outline.cancelled
    /\ outline' = [outline EXCEPT !.cancelled = TRUE]
    /\ UNCHANGED <<workspace, projectRoot, gitignorePatterns,
                   compiledGitignorePatterns, entered, skipped, searches, providerPc,
                   lookupVars>>
    /\ UNCHANGED <<modelVars, urlVars, cacheVars, settingsVars, adminVars>>

\* The awaited extractor returns its array.
ExtractorReturns ==
    /\ outline.pc = "await"
    /\ \E items \in ExtractorResults(outline.fileName) :
          outline' = [outline EXCEPT !.pc = "loop", !.items = items, !.k = 1]
    /\ UNCHANGED <<workspace, projectRoot, gitignorePatterns,
                   compiledGitignorePatterns, entered, skipped, searches, providerPc,
                   lookupVars>>
    /\ UNCHANGED <<modelVars, urlVars, cacheVars, settingsVars, adminVars>>

\* The symbol of one item of views.py, urls.py or admin.py.
SymbolOf(fileName, item) ==
    IF fileName = ViewsPy
    THEN DocumentSymbol(item.name, IF item.isClass THEN "class" ELSE "function",
                        IF item.isClass THEN "Class" ELSE "Function", item.lineNumber)
    ELSE IF fileName = UrlsPy
    THEN DocumentSymbol(item.pattern, item.viewName, "Variable", item.lineNumber)
    ELSE DocumentSymbol(item.name, <<"Admin for ", item.modelName>>, "Class",
                        item.lineNumber)

\* One iteration of the for loop over the items, or the return after it.
\* For a model the iteration goes up to the for loop over its fields.
NextSymbol ==
    /\ outline.pc = "loop"
    /\ outline' =
          IF outline.k > Len(outline.items)
          THEN ReturnSymbols(outline, outline.symbols)
          ELSE LET item == outline.items[outline.k]
               IN  IF outline.fileName = ModelsPy
                   THEN IF outline.cancelled
                        THEN ReturnSymbols(outline, outline.symbols)
                        ELSE [outline EXCEPT
                                 !.pc = "fields",
                                 !.modelSymbol =
                                     DocumentSymbol(item.name, "class", "Class",
                                                    item.lineNumber),
                                 !.f = 1]
                   ELSE [outline EXCEPT
                            !.symbols = Append(@, SymbolOf(outline.fileName, item)),
                            !.k = @ + 1]
    /\ UNCHANGED <<workspace, projectRoot, gitignorePatterns,
                   compiledGitignorePatterns, entered, skipped, searches, providerPc,
                   lookupVars>>
    /\ UNCHANGED <<modelVars, urlVars, cacheVars, settingsVars, adminVars>>

\* One iteration of the for loop over model.fields, or symbols.push after it.
NextField ==
    /\ outline.pc = "fields"
    /\ LET fields == outline.items[outline.k].fields
       IN  outline' =
             IF outline.f > Len(fields)
             THEN [outline EXCEPT !.symbols = Append(@, outline.modelSymbol),
                                  !.k = @ + 1,
                                  !.pc = "loop"]
             ELSE IF outline.cancelled
             THEN ReturnSymbols(outline, outline.symbols)
             ELSE LET field == fields[outline.f]
                  IN  [outline EXCEPT
                          !.modelSymbol.children =
                              Append(@, DocumentSymbol(field.name, field.fieldType,
                                         IF field.isProperty THEN "Property" ELSE "Field",
                                         field.lineNumber)),
                          !.f = @ + 1]
    /\ UNCHANGED <<workspace, projectRoot, gitignorePatterns,
                   compiledGitignorePatterns, entered, skipped, searches, providerPc,
                   lookupVars>>
    /\ UNCHANGED <<modelVars, urlVars, cacheVars, settingsVars, adminVars>>

OutlineNext ==
    \/ provideDocumentSymbols
    \/ CancellationRequested
    \/ ExtractorReturns
    \/ NextSymbol
    \/ NextField

\* A document is opened; its token may be cancelled already.
InitOutline ==
    /\ outline \in [pc : {"idle"}, fileName : {<<>>}, cancelled : BOOLEAN,
                     extractorCalls : {0}, items : {<<>>}, k : {0}, f : {0},
                     modelSymbol : {<<>>}, symbols : {<<>>}, result : {<<>>}]
    /\ NoLookups
    /\ workspace = <<>>
    /\ projectRoot = Undefined
    /\ gitignorePatterns = <<>>
    /\ compiledGitignorePatterns = {}
    /\ entered = {}
    /\ skipped = {}
    /\ searches = 0
    /\ providerPc = "idle"
    /\ NoModels
    /\ NoUrls
    /\ NoCache
    /\ NoSettings
    /\ NoAdmin

SpecOutline == InitOutline /\ [][OutlineNext]_vars

----------------------------------------------------------------------------
(* Claims on the project search.                                           *)

\* What a load from the project root's .gitignore, as it is on disk, gives.
ProjectContext ==
    LET loaded == LoadGitignorePatterns(workspace, projectRoot)
    IN  [patterns |-> loaded.patterns, compiled |-> loaded.compiled,
         root |-> projectRoot]

\* The last search went into no directory that a pattern of the project's
\* .gitignore matches, and with no .gitignore in the project root it passed
\* over the always-ignored names only.
SearchHonoursGitignore ==
    /\ projectRoot # Undefined =>
          \A d \in entered \ {WorkspaceFolder} :
              ~isIgnoredByGitignore(ProjectContext, d, BaseName(d))
    /\ (projectRoot # Undefined /\ ~HasGitignore(workspace, projectRoot)) =>
          \A d \in skipped : BaseName(d) \in alwaysIgnore

\* C21: every search for manage.py, in the constructor and on every
\* refresh, skips each directory a pattern of the project's .gitignore
\* matches and does not descend into it; with no .gitignore it skips only
\* .git, .vscode and __pycache__.
C21_SearchSkipsIgnoredDirectories ==
    [][searches' # searches => SearchHonoursGitignore']_vars

----------------------------------------------------------------------------
(* Claims on the scope of a record.                                        *)

\* Line n is the first non-blank line after header r that is not indented
\* deeper than the header.
Terminator(ls, r, n) ==
    /\ RecordHeader(ls, r)
    /\ n \in (r + 1)..(Len(ls) - 1)
    /\ ~IsBlank(ls[n + 1])
    /\ ls[n + 1].ind <= ls[r + 1].ind
    /\ \A m \in (r + 1)..(n - 1) : IsBlank(ls[m + 1]) \/ ls[m + 1].ind > ls[r + 1].ind

\* The scanner has a record open.
RecordOpen == sc.currentModel # NoModel /\ sc.inModelDefinition

\* The record of header r is output once, as the scanner held it when it
\* reached line n.
OutputAsCollectedAt(ls, models, r, n) ==
    /\ Cardinality({k \in 1..Len(models) : models[k].lineNumber = r}) = 1
    /\ \A k \in 1..Len(models) :
          models[k].lineNumber = r =>
              /\ <<models[k]>> = ScanPrefix(ls, n, "twoPass").currentModel
              /\ \A j \in 1..Len(models[k].fields) : models[k].fields[j].lineNumber < n

\* The scan step about to be taken reads a blank line with a record open.
BlankLineInRecord ==
    /\ pc = "scan"
    /\ i < Len(lines)
    /\ IsBlank(lines[i + 1])
    /\ RecordOpen

\* C22: a non-blank line indented no deeper than the open record's header
\* ends the record's scope: the record is output with the fields collected
\* up to that line and no later line adds a Field to it; a blank line in an
\* open record changes nothing: the record stays open and the pending
\* field and the pending @property flag are kept.
C22_DedentEndsScopeBlankDoesNot ==
    /\ [](Done =>
            \A r \in 0..(Len(lines) - 1) : \A n \in (r + 1)..(Len(lines) - 1) :
                Terminator(lines, r, n) => OutputAsCollectedAt(lines, sc.models, r, n))
    /\ [][BlankLineInRecord => sc' = sc]_vars

\* The Fields of the whole output declared on line n.
FieldsOnLine(models, n) ==
    {<<k, j>> \in (1..Len(models)) \X (0..(Len(lines) + 1)) :
        /\ j \in 1..Len(models[k].fields)
        /\ models[k].fields[j].lineNumber = n}

\* C23: after a 'class Meta:' line of an open record no line of the
\* record's scope adds a Field, constructor field or computed property, not
\* even a line at the body's indentation that follows the Meta block.
C23_NoFieldAfterMeta ==
    Done =>
        \A r \in 0..(Len(lines) - 1) : \A n \in (r + 1)..(Len(lines) - 1) :
            (InScopeOf(lines, r, n) /\ AfterMeta(lines, r, n))
            => FieldsOnLine(sc.models, n) = {}

\* A record with a field line, a Meta line and a second field line at the
\* same indentation has been scanned to the end, and the first field is
\* reported.
C23_Witness ==
    /\ Done
    /\ \E r \in 0..(Len(lines) - 1) : \E n \in (r + 3)..(Len(lines) - 1) :
          /\ InScopeOf(lines, r, n)
          /\ MetaClassRegex(lines[n])
          /\ FieldRegex(lines[n + 1])
          /\ FieldRegex(lines[n - 1])
          /\ lines[n + 1].ind = lines[n - 1].ind
          /\ FieldsAt(sc.models, r, n - 2) # {}
          /\ FieldsAt(sc.models, r, n) = {}

\* The nearest non-blank line above line n is an @property line.
DecoratorDirectlyAbove(ls, n) ==
    \E d \in 0..(n - 1) :
        /\ IsPropertyDecorator(ls[d + 1])
        /\ \A m \in (d + 1)..(n - 1) : IsBlank(ls[m + 1])

\* C24: a computed Field is recorded for a method header only when the
\* @property line immediately precedes it, blank lines aside: a method
\* header separated from the decorator by a non-blank, non-decorator line
\* yields no Field.
C24_PropertyNeedsAdjacentDecorator ==
    Done =>
        \A k \in 1..Len(sc.models) : \A j \in 1..Len(sc.models[k].fields) :
            sc.models[k].fields[j].isProperty
            => DecoratorDirectlyAbove(lines, sc.models[k].fields[j].lineNumber)

----------------------------------------------------------------------------
(* Claims on the lines of a multi-line field.                              *)

\* Lines a..a+k of record r are one field definition whose argument lines
\* hold any text: plain text, or keyword arguments of the form
\* name=models.X indented deeper than the opening line.
MultiLineFieldAnyText(ls, r, a, k) ==
    /\ k >= 1
    /\ InScopeOf(ls, r, a + k)
    /\ a > r
    /\ ~AfterMeta(ls, r, a)
    /\ FieldRegex(ls[a + 1])
    /\ \A m \in 1..k :
          \/ ls[a + m + 1].kind = "text"
          \/ FieldRegex(ls[a + m + 1]) /\ ls[a + m + 1].ind > ls[a + 1].ind
    /\ \A m \in 0..(k - 1) : Depth(ls, a, m) > 0
    /\ Depth(ls, a, k) = 0

\* C25: the continuation lines i+1..i+k of a multi-line field opened on
\* line i add no Field of their own, whatever their text: no Field of the
\* output is declared on one of them.
C25_ContinuationLinesAddNoField ==
    Done =>
        \A r \in 0..(Len(lines) - 1) :
            \A a \in (r + 1)..(Len(lines) - 1) :
                \A k \in 1..(Len(lines) - 1 - a) :
                    MultiLineFieldAnyText(lines, r, a, k)
                    => \A m \in 1..k : FieldsOnLine(sc.models, a + m) = {}

----------------------------------------------------------------------------
(* Claims on what a record's Field list depends on.                        *)

\* The file ls with every line above line r replaced by a top-level line
\* that declares nothing: the same record scope under the same imports,
\* with no record declared before it.
WithoutEarlierRecords(ls, r) ==
    [n \in 1..Len(ls) |-> IF n <= r THEN LTop ELSE ls[n]]

\* The Field lists the output gives for the record declared at line r.
FieldListsOf(models, r) ==
    {models[k].fields : k \in {m \in 1..Len(models) : models[m].lineNumber = r}}

\* C26: the Field list of a record depends on the lines of its scope and
\* the imports alone: a file and the file that differs from it only in the
\* records declared before header r give the record at r the same Field
\* list.
C26_FieldListIndependentOfEarlierRecords ==
    Done =>
        \A r \in 0..(Len(lines) - 1) :
            RecordHeader(lines, r) =>
                FieldListsOf(sc.models, r)
                    = FieldListsOf(ExtractModelsOf(WithoutEarlierRecords(lines, r),
                                                   "twoPass"), r)

----------------------------------------------------------------------------
(* Claims on the sequence of records.                                      *)

\* C27: every top-level class header whose name is in the record-name set
\* yields exactly one record, declared at that line and named after the
\* class; every record comes from such a line; the records are in strictly
\* increasing line order: none is output twice or dropped, however its
\* scope ends.
C27_OneRecordPerHeaderInOrder ==
    Done =>
        /\ \A r \in 0..(Len(lines) - 1) :
              RecordHeader(lines, r) =>
                  /\ Cardinality({k \in 1..Len(sc.models) :
                                     sc.models[k].lineNumber = r}) = 1
                  /\ \A k \in 1..Len(sc.models) :
                        sc.models[k].lineNumber = r
                        => sc.models[k].name = lines[r + 1].name
        /\ \A k \in 1..Len(sc.models) : RecordHeader(lines, sc.models[k].lineNumber)
        /\ \A k \in 1..(Len(sc.models) - 1) :
              sc.models[k].lineNumber < sc.models[k + 1].lineNumber

\* Three records have been output: one whose scope the next header ended,
\* one ended by a dedented line that is no header, one open at the end of
\* the file.
C27_Witness ==
    /\ Done
    /\ Len(sc.models) = 3
    /\ \E r \in 0..(Len(lines) - 2) : RecordHeader(lines, r) /\ RecordHeader(lines, r + 1)
    /\ \E r \in 0..(Len(lines) - 2) :
          \E n \in (r + 1)..(Len(lines) - 1) :
              Terminator(lines, r, n) /\ ~ClassRegex(lines[n + 1])
    /\ \E r \in 0..(Len(lines) - 1) : OpenAtEnd(lines, r)

----------------------------------------------------------------------------
(* Claims on the nesting of field lines.                                   *)

\* Line n of record r lies in the body of the method or nested class whose
\* header is line d of the record: every line after d up to n is blank or
\* indented deeper than d.
NestedUnder(ls, r, d, n) ==
    /\ InScopeOf(ls, r, n)
    /\ d \in (r + 1)..(n - 1)
    /\ MethodMatch(ls[d + 1]) \/ (TrimmedClassMatch(ls[d + 1]) /\ ls[d + 1].ind > 0)
    /\ \A m \in (d + 1)..n : IsBlank(ls[m + 1]) \/ ls[m + 1].ind > ls[d + 1].ind

\* C28: only direct statements of a record's class body add a Field: a
\* line nested in a method body or in a nested class of the record is the
\* declaration line of no Field.
C28_NestedLinesAddNoField ==
    Done =>
        \A r \in 0..(Len(lines) - 1) : \A n \in (r + 2)..(Len(lines) - 1) :
            (\E d \in (r + 1)..(n - 1) : NestedUnder(lines, r, d, n))
            => FieldsOnLine(sc.models, n) = {}

----------------------------------------------------------------------------
(* Claims on the classification of a route line.                           *)

\* The call that was innermost before the step, as it is after the step.
SameFrame == callStack'[Len(callStack)]

\* C29: every line is classified once.  A line a direct-route pattern
\* matches gives exactly one RouteEntry (prefix + pattern, the captured
\* view, the line index) and starts no include expansion, even when it
\* holds an include(...) call; an include expansion starts only on a line
\* no direct-route pattern matched, and that line adds no entry of its own:
\* the call's entries are unchanged when the expansion starts, and grow by
\* exactly the entries of the included file when it returns.
C29_LineClassifiedOnce ==
    [][/\ (InLoop /\ TopLine.direct) =>
            /\ Len(callStack') = Len(callStack)
            /\ SameFrame.urls =
                  Append(Top.urls, DjangoUrl(Top.prefix \o TopLine.pattern,
                                             TopLine.view, Top.idx))
            /\ SameFrame.idx = Top.idx + 1
       /\ (InLoop /\ Len(callStack') > Len(callStack)) =>
            /\ ~TopLine.direct
            /\ TopLine.include
            /\ SubSeq(callStack', 1, Len(callStack)) = callStack
       /\ (InLoop /\ ~TopLine.direct /\ Len(callStack') = Len(callStack)) =>
            /\ SameFrame.urls = Top.urls
            /\ SameFrame.idx = Top.idx + 1
       /\ (Len(callStack) > 1 /\ Len(callStack') < Len(callStack)) =>
            LET caller == callStack[Len(callStack) - 1]
            IN  /\ callStack'[Len(callStack')].urls = caller.urls \o Top.urls
                /\ callStack'[Len(callStack')].idx = caller.idx + 1
      ]_vars

\* extractUrls has returned for a root file with the line
\* path('news/', include('blog.urls')) and the line
\* include('blog.urls', 'blog/'): one entry for the first, the entries of
\* blog/urls.py for the second.
C29_Witness ==
    /\ urlsPc = "done"
    /\ routeFiles["site"] = <<UPathInclude, UIncBlog>>
    /\ routeFiles["blog"] = <<URoute>>
    /\ Len(urlsResult) = 2
    /\ urlsResult[1].viewName = "include"
    /\ urlsResult[2].viewName = "home_view"

\* Line l is an include line that names no routing file: its module does
\* not end in .urls, or the application directory or its urls.py is missing.
NamesNoRouteFile(l) ==
    /\ ~l.direct
    /\ l.include
    /\ \/ ~EndsWithUrls(l.module)
       \/ l.module[1] \notin AppDirs
       \/ l.module[1] \notin DOMAIN routeFiles

\* C30: an include line that names no routing file is passed over: the
\* call adds no entry and keeps the entries it has, no call is started or
\* ended, and the loop goes on with the next line.
C30_UnresolvedIncludeSkipped ==
    [][(InLoop /\ NamesNoRouteFile(TopLine)) =>
            /\ callStack' = SetTop([Top EXCEPT !.idx = @ + 1])
            /\ urlsPc' = urlsPc
            /\ urlsResult' = urlsResult
      ]_vars

\* extractUrls has returned the one route of blog/urls.py, which follows an
\* include of a module that is no routing module; in the root file the
\* include of blog.urls precedes an include of shop.urls, whose file is
\* missing.
C30_Witness ==
    /\ urlsPc = "done"
    /\ "shop" \notin DOMAIN routeFiles
    /\ routeFiles["site"] = <<UIncBlog, UIncShop>>
    /\ routeFiles["blog"] = <<UIncViews, URoute>>
    /\ Len(urlsResult) = 1
    /\ urlsResult[1].viewName = "home_view"
    /\ urlsResult[1].lineNumber = 1

----------------------------------------------------------------------------
(* Order of the route entries.                                             *)

\* The entries of lines 1..n of a route file, read as the claim states them:
\* line by line in line order, a direct route as one entry, an include line
\* that resolves as the whole block of the included file's entries, any
\* other line as nothing.  depth is the number of calls that may still nest.
RECURSIVE DepthFirstEntries(_, _, _, _)
DepthFirstEntries(file, prefix, n, depth) ==
    IF n = 0 THEN <<>>
    ELSE LET l     == routeFiles[file][n]
             inner == IncludedFilePath(l.module)
             own   ==
                 IF l.direct
                 THEN <<DjangoUrl(prefix \o l.pattern, l.view, n - 1)>>
                 ELSE IF l.include /\ depth > 0 /\ inner # ""
                         /\ inner \in DOMAIN routeFiles
                 THEN DepthFirstEntries(inner,
                          prefix \o (IF l.hasNs THEN l.nsPrefix ELSE <<>>),
                          Len(routeFiles[inner]), depth - 1)
                 ELSE <<>>
         IN  DepthFirstEntries(file, prefix, n - 1, depth) \o own

\* C31: the output of extractUrls is in depth-first order of the include
\* graph.  At every moment the entries a call has collected are those of the
\* lines it has passed, in line order, with the entries of an included file
\* as one block at the place of its include line; the array that is returned
\* is that of all the lines of the root file.
C31_DepthFirstOrder ==
    /\ \A k \in DOMAIN callStack :
          callStack[k].urls =
              DepthFirstEntries(callStack[k].file, callStack[k].prefix,
                                callStack[k].idx, MaxDepth - k)
    /\ urlsPc = "done" =>
          \E prefix \in Prefixes :
              urlsResult = DepthFirstEntries("site", prefix,
                               Len(routeFiles["site"]), MaxDepth - 1)

\* extractUrls has returned for a root file that includes blog.urls before a
\* route of its own, where blog/urls.py has a route before its include of
\* shop.urls: the entries of blog and, inside them, of shop come as one
\* block before the root's own route.
C31_Witness ==
    /\ urlsPc = "done"
    /\ routeFiles["site"] = <<UIncBlog, URoute>>
    /\ routeFiles["blog"] = <<URoute, UIncShop>>
    /\ "shop" \in DOMAIN routeFiles
    /\ Len(urlsResult) = 3
    /\ urlsResult[1].pattern = <<"blog/", "home/">>
    /\ urlsResult[2].pattern = <<"blog/", "shop/", "home/">>
    /\ urlsResult[3].lineNumber = 1

----------------------------------------------------------------------------
(* The record an admin class is associated with.                           *)

\* Line m holds an occurrence of model = <identifier>.
ModelOccurrence(ls, m) == ls[m + 1].kind = "model"

\* C32: the modelName of a class-based entry is the identifier of the first
\* occurrence of model = <identifier> at or after the class header, also
\* when that lies in a later class, and '' when there is none up to the end
\* of the file; an occurrence before the header has no part in it.
C32_ModelNameByForwardSearch ==
    adminPc # "class" =>
        \A k \in 1..Cardinality(ClassIdiomLines(adminContent)) :
            LET h     == adminClasses[k].lineNumber
                after == {m \in h..(Len(adminContent) - 1) :
                             ModelOccurrence(adminContent, m)}
            IN  /\ AdminClassRegex(adminContent, h)
                /\ after = {} => adminClasses[k].modelName = ""
                /\ after # {} =>
                      \E m \in after :
                          /\ \A o \in after : m <= o
                          /\ adminClasses[k].modelName = adminContent[m + 1].model

\* Two admin classes follow a model = Comment line and precede a
\* proxy_model = Tag line, which lies in the second: both are associated
\* with Tag.
C32_Witness ==
    /\ adminPc = "done"
    /\ adminContent = <<AModel, AClass, AClass, AModelTag>>
    /\ adminClasses = <<DjangoAdminClass("PostAdmin", 1, "Tag"),
                        DjangoAdminClass("PostAdmin", 2, "Tag")>>

----------------------------------------------------------------------------
(* Extent of a folded setting value.                                       *)

\* The opening and closing character of each kind of bracket.
BracketKinds == {<<"{", "}">>, <<"[", "]">>, <<"(", ")">>}

\* The text holds an opening character without its closing character.
LeftOpen(text) ==
    \E b \in BracketKinds : Includes(text, b[1]) /\ ~Includes(text, b[2])

\* The line holds the closing character of a kind the text opens.
ClosesKindOf(text, line) ==
    \E b \in BracketKinds : Includes(text, b[1]) /\ Includes(line, b[2])

\* text, then lines from..to (0-based) without their outer white space, each
\* after one space.
RECURSIVE JoinedLines(_, _, _, _)
JoinedLines(text, ls, from, to) ==
    IF from > to THEN text
    ELSE JoinedLines(text \o <<" ">> \o Trim(ls[from + 1]), ls, from + 1, to)

\* C33: folding is decided by the declaration line and ends.  Every
\* declaration gives one entry.  Its value is the comment-stripped value of
\* the declaration line when that leaves no bracket kind open; otherwise it
\* is that value followed by the lines after it, each after one space, up to
\* and with the first line that holds the closing character of a kind the
\* declaration line opens, and up to the last line of the file when there
\* is no such line.
C33_FoldingExtent ==
    SettingsDone =>
        \A n \in 0..(Len(settingsLines) - 1) :
            SettingRegex(Trim(settingsLines[n + 1])) =>
                LET declared == DeclaredValue(settingsLines, n)
                    last     == Len(settingsLines) - 1
                    closers  == {m \in (n + 1)..last :
                                    ClosesKindOf(declared, settingsLines[m + 1])}
                IN  /\ Cardinality(SettingsAt(n)) = 1
                    /\ \A k \in SettingsAt(n) :
                          settings[k].value =
                              IF ~LeftOpen(declared) THEN declared
                              ELSE IF closers = {}
                              THEN JoinedLines(declared, settingsLines, n + 1, last)
                              ELSE JoinedLines(declared, settingsLines, n + 1,
                                       CHOOSE m \in closers : \A o \in closers : m <= o)

\* 'A = (x' is followed by 'B = [', '  x,' and ']' and by no ')': its value
\* holds all the lines to the end of the file, and the value of B ends with
\* the line of its ']'.
C33_Witness ==
    /\ SettingsDone
    /\ settingsLines = <<SOpenParen, SOpenBracket, SItem, SCloseBracket>>
    /\ Len(settings) = 2
    /\ settings[1].value =
          <<"(", "x", " ", "B", " ", "=", " ", "[", " ", "x", ",", " ", "]">>
    /\ settings[2].value = <<"[", " ", "x", ",", " ", "]">>

----------------------------------------------------------------------------
(* Length of the closure loop.                                             *)

\* The lines that declare a class with a base list, at any indentation.
ClassDeclarationLines(ls) == {n \in 1..Len(ls) : TrimmedClassMatch(ls[n])}

\* The names the closure passes have added to the set of the first pass.
AddedByClosure == sc.modelClasses \ FirstPass(lines)

\* C34: the closure loop ends.  While it runs, each of its passes so far
\* has added a name the set did not hold; once it is over, every pass but
\* the last has; and the names added are names of class declaration lines,
\* so the passes number at most the class declaration lines plus one, also
\* when the declarations inherit from themselves or from each other in a
\* cycle.
C34_ClosurePassesBounded ==
    variant = "twoPass" =>
        /\ pc = "closure" => passes <= Cardinality(AddedByClosure)
        /\ pc \in {"scan", "done"} =>
              /\ passes >= 1
              /\ passes - 1 <= Cardinality(AddedByClosure)
        /\ AddedByClosure \subseteq
              {lines[n].name : n \in ClassDeclarationLines(lines)}
        /\ passes <= Cardinality(ClassDeclarationLines(lines)) + 1
        /\ Cardinality(sc.modelClasses)
              <= Cardinality(ClassDeclarationLines(lines))

\* The loop is over for 'class C(B)', 'class B(A)', 'class A(C)' and
\* 'class A(models.Model)' in this order: the first pass found A, the
\* second added B, the third C, and the fourth nothing.
C34_Witness ==
    /\ pc = "done"
    /\ variant = "twoPass"
    /\ lines = <<LSubC, LSubB, LCycleA, LClassA>>
    /\ passes = 3
    /\ sc.modelClasses = {"A", "B", "C"}

----------------------------------------------------------------------------
(* Reach of the import lines.                                              *)

\* Line n (0-based) is an import line that lies within the first 30 lines.
EarlyImport(ls, n, kind) ==
    /\ n < Len(ls)
    /\ n < 30
    /\ ls[n + 1].kind = kind

\* The file as it reads when the import lines within the first 30 lines have
\* had their effect for the whole file and the others none: a field line
\* that uses an alias declared within the first 30 lines, or the bare name
\* of a constructor imported there, stands as a field line of the standard
\* form, and every import line stands as a line of other text.
Standardised(ls) ==
    [k \in 1..Len(ls) |->
        LET l == ls[k]
        IN  IF l.kind \in {"aliasImport", "directImport"}
            THEN Line("text", l.ind, "", "", <<>>, l.opens, l.closes, FALSE)
            ELSE IF /\ l.kind = "aliasfield"
                    /\ \E n \in 0..(Len(ls) - 1) :
                          /\ EarlyImport(ls, n, "aliasImport")
                          /\ l.bases[1] = <<ls[n + 1].name>>
            THEN [l EXCEPT !.kind = "field", !.bases = <<>>]
            ELSE IF /\ l.kind = "barefield"
                    /\ \E n \in 0..(Len(ls) - 1) :
                          /\ EarlyImport(ls, n, "directImport")
                          /\ l.typ = ls[n + 1].name
            THEN [l EXCEPT !.kind = "field"]
            ELSE l]

\* C35: the import scan reads the first 30 lines and no more.  An alias or
\* direct-import line at index 30 or later changes nothing in what is
\* recognised as a field, and one at an index below 30 makes the aliased or
\* the bare constructor form a field form on every line of the file: the
\* output is that of the file in which these forms are written in the
\* standard form.
C35_ImportScanReach ==
    Done => sc.models = ExtractModelsOf(Standardised(lines), "twoPass")

\* The same, for files whose direct-import lines within the first 30 lines
\* list names.
ImportScanReachForListedNames ==
    (Done /\ ~\E n \in 0..(Len(lines) - 1) :
                 EarlyImport(lines, n, "directImport") /\ lines[n + 1].name = "(")
    => sc.models = ExtractModelsOf(Standardised(lines), "twoPass")

\* An alias import on line 29 precedes a record with a field of the aliased
\* form, which is reported.
ImportScanReachWitness ==
    /\ Done
    /\ Len(lines) = 32
    /\ lines[30] = LAliasImport
    /\ lines[31] = LClassA
    /\ lines[32] = LFieldAliased
    /\ Len(sc.models) = 1
    /\ Len(sc.models[1].fields) = 1
    /\ sc.models[1].fields[1].lineNumber = 31

----------------------------------------------------------------------------
(* Time to live of the model cache.                                        *)

\* The call of caller c begins with this step.
CallBegins(c) == calls[c].pc = "idle" /\ calls'[c].pc # "idle"

\* The extraction of caller c ends with this step, the file having been
\* read.
ExtractionEnds(c) == calls[c].pc = "scanning" /\ calls'[c].pc = "returned"

\* C36: the model cache keeps the result of the last extraction that read
\* the file of a path, with the time at which it ended.  A call made less
\* than cacheTtl (30 s) after that time returns the stored array and reads
\* nothing, whether the array is empty or not; any other call reads the
\* file, and when its extraction ends its result and the time then replace
\* the entry; nothing else changes the cache.
C36_ModelCacheTimeToLive ==
    [][/\ \A c \in DOMAIN calls :
            CallBegins(c) =>
                LET path == calls'[c].path
                IN  IF path \in DOMAIN cacheExpiry
                       /\ now - cacheExpiry[path] < 30000
                    THEN /\ calls'[c].pc = "returned"
                         /\ calls'[c].ret = modelCache[path]
                         /\ heap' = heap
                    ELSE calls'[c].pc = "reading"
       /\ \A c \in DOMAIN calls :
            ExtractionEnds(c) =>
                /\ heap'[calls'[c].ret] = ExtractModelsOf(calls[c].content, "twoPass")
                /\ modelCache'[calls[c].path] = calls'[c].ret
                /\ cacheExpiry'[calls[c].path] = now
       /\ (modelCache' # modelCache \/ cacheExpiry' # cacheExpiry) =>
            \E c \in DOMAIN calls :
                /\ ExtractionEnds(c)
                /\ \A path \in DOMAIN modelCache \ {calls[c].path} :
                      /\ modelCache'[path] = modelCache[path]
                      /\ cacheExpiry'[path] = cacheExpiry[path]
      ]_vars

\* Two calls on a file without a record class: the first read it and
\* stored the empty result, the second, 20 s later, was given that array.
C36_Witness ==
    /\ now = 50000
    /\ \A c \in 1..2 : calls[c].pc = "returned"
    /\ heap = << <<>> >>
    /\ calls[1].ret = 1
    /\ calls[2].ret = 1
    /\ modelCache["blog/models.py"] = 1
    /\ cacheExpiry["blog/models.py"] = 30000

----------------------------------------------------------------------------
(* Age of the provider's cached lookups.                                   *)

\* C37: what cachedFileExists or cachedReadDir returns was computed at most
\* cacheTtl (30 s) before the return, and after the last clearCaches call,
\* whatever the order of the getCachedConfig, cachedFileExists,
\* cachedReadDir and clearCaches calls.
C37_LookupsNeverStale ==
    \A k \in DOMAIN lastLookup :
        /\ lastLookup[k].returnedAt - lastLookup[k].computedAt <= 30000
        /\ lastLookup[k].computedAfter = lastLookup[k].returnedAfter

\* What a lookup returns was computed after the last clearCaches call.
LookupsComputedAfterClear ==
    \A k \in DOMAIN lastLookup :
        lastLookup[k].computedAfter = lastLookup[k].returnedAfter

----------------------------------------------------------------------------
(* Reach and order of searchForManagePy.                                   *)

\* The directories from directory down to levels levels below it, in
\* depth-first pre-order, the ignored ones and what they hold left out.
RECURSIVE PreOrder(_, _, _, _), PreOrderOfNames(_, _, _, _, _)
PreOrder(ws, ctx, directory, levels) ==
    <<directory>> \o
    (IF levels > 0
     THEN PreOrderOfNames(ws, ctx, directory, SubdirsOf(ws, directory), levels)
     ELSE <<>>)

PreOrderOfNames(ws, ctx, directory, dirNames, levels) ==
    IF dirNames = <<>> THEN <<>>
    ELSE LET subdirPath == Join(directory, Head(dirNames))
         IN  (IF isIgnoredByGitignore(ctx, subdirPath, Head(dirNames))
              THEN <<>>
              ELSE PreOrder(ws, ctx, subdirPath, levels - 1))
             \o PreOrderOfNames(ws, ctx, directory, Tail(dirNames), levels)

\* The first directory of a sequence that holds manage.py.
FirstWithManagePy(ws, directories) ==
    LET holding == {k \in 1..Len(directories) : directories[k] \in ws.managePy}
    IN  IF holding = {} THEN Undefined
        ELSE directories[CHOOSE k \in holding : \A m \in holding : k <= m]

\* The patterns, compiled expressions and project root a search works with.
SearchContext ==
    IF providerPc = "new" THEN Context ELSE [Context EXCEPT !.compiled = {}]

\* What a search with the configured depth finds when it reaches levels
\* levels below the workspace folder.
SearchReaching(levels) ==
    LET d == workspace.searchDepth
    IN  /\ d <= 0 => /\ projectRoot' = Undefined
                      /\ entered' = {}
                      /\ skipped' = {}
        /\ d = One => /\ entered' = {WorkspaceFolder}
                       /\ skipped' = {}
        /\ d > 0 => projectRoot' =
                        FirstWithManagePy(workspace,
                            PreOrder(workspace, SearchContext, WorkspaceFolder, levels))

----------------------------------------------------------------------------
(* Cancellation of provideDocumentSymbols.                                 *)

\* A call that finds cancellation requested on entry returns the empty list
\* and calls no extractor.
CancelledOnEntry ==
    (outline.pc = "idle" /\ outline.cancelled /\ outline'.pc # "idle") =>
        /\ outline'.pc = "returned"
        /\ outline'.result = <<>>
        /\ outline'.extractorCalls = 0

\* The list returned holds only complete symbols: the symbol of a model has
\* a child for every field of the model.
OnlyCompleteSymbols ==
    outline'.pc = "returned" =>
        \A n \in 1..Len(outline'.result) :
            outline'.fileName = ModelsPy =>
                Len(outline'.result[n].children) = Len(outline'.items[n].fields)

\* C39: a call that finds cancellation requested on entry returns the empty
\* list without calling an extractor; for every kind of file no symbol is
\* added once cancellation is requested; the list returned holds only
\* complete symbols.
C39_HonoursCancellation ==
    [][/\ CancelledOnEntry
       /\ outline.cancelled => outline'.symbols = outline.symbols
       /\ OnlyCompleteSymbols]_vars

\* The same for models.py alone.
ModelsOutlineHonoursCancellation ==
    [][/\ CancelledOnEntry
       /\ (outline.cancelled /\ outline'.fileName = ModelsPy) =>
              outline'.symbols = outline.symbols
       /\ OnlyCompleteSymbols]_vars

====
